---- MODULE Spec2Model ----
(***************************************************************************)
(* A model of the segment allocator of mimalloc-rs (src/src/segment.rs):   *)
(* per-thread segment queues and segment cache, page slots inside          *)
(* segments, and the global lock-free stack of abandoned segments.         *)
(*                                                                         *)
(* Thread-local work of a call is one step.  The two CAS loops on the      *)
(* global `abandoned` stack are split at every access of shared memory,    *)
(* so that threads interleave between the read of the head, the read of    *)
(* `abandoned_next`, the CAS and the update of `abandoned_count`.          *)
(***************************************************************************)
EXTENDS Integers, Sequences, FiniteSets, TLC

VARIABLES seg, tld, abandoned, abandoned_count, pc, loc, halt, cfg, os, proc, tf,
          stat_count, link, mul

vars == <<seg, tld, abandoned, abandoned_count, pc, loc, halt, cfg, os, proc, tf,
          stat_count, link, mul>>

\* the state of the segment allocator, and the state of the rest of the program
segs == <<seg, tld, abandoned, abandoned_count, pc, loc, halt, cfg>>
ext == <<os, proc, tf, stat_count, link, mul>>
\* what the steps of os.rs, of init.rs, of the thread free list, of stats.rs, of
\* the free list links and of mul_overflow leave as it is
notOs == <<segs, proc, tf, stat_count, link, mul>>
notProc == <<segs, os, tf, stat_count, link, mul>>
notTf == <<segs, os, proc, stat_count, link, mul>>
notStat == <<segs, os, proc, tf, link, mul>>
notLink == <<segs, os, proc, tf, stat_count, mul>>
notMul == <<segs, os, proc, tf, stat_count, link>>

(***************************************************************************)
(* Bounds of the model                                                     *)
(***************************************************************************)
\* number of threads
NThreads == 2
\* largest value of the `threads` statistic of one thread that is followed
MaxThreadsStat == 2
\* number of SEGMENT_SIZE-aligned addresses the OS can hand out
NSegs == 2
\* page slots of a segment; the pages of a SMALL segment (cfg.pages) stand for
\* MI_SMALL_PAGES_PER_SEGMENT (64), scaled down
MaxSmallPages == 3
\* blocks of one page
MaxBlocks == 1
\* tld.current_size is capped at cfg.tracked times SEGMENT_SIZE (it can drift upwards)
MaxTracked == 3
\* segments on the abandoned stack when a reclaim's budget is looked at
MaxAbandoned == 73
\* segments a thread counts as allocated when it starts a call, where cfg.stats has
\* the `segments` statistic counted
MaxStat == 3
\* segments in the cache of a thread that has freed what it had allocated
MaxCached == 3
MaxHeapPages == 2
MaxFreed == 3
MaxStatCalls == 3
PtrBits == 3
\* size_of::<usize>(), scaled down: bytes of a machine word
WordBytes == 1

(***************************************************************************)
(* Program constants                                                       *)
(***************************************************************************)
MI_INTPTR_SHIFT == 3
MI_SMALL_PAGE_SHIFT == 13 + MI_INTPTR_SHIFT
MI_LARGE_PAGE_SHIFT == 6 + MI_SMALL_PAGE_SHIFT
MI_SEGMENT_SHIFT == MI_LARGE_PAGE_SHIFT
SEGMENT_SIZE == 2 ^ MI_SEGMENT_SHIFT
SMALL_PAGE_SIZE == 2 ^ MI_SMALL_PAGE_SHIFT
LARGE_PAGE_SIZE == 2 ^ MI_LARGE_PAGE_SHIFT
LARGE_SIZE_MAX == LARGE_PAGE_SIZE \div 8
SMALL_PAGES_PER_SEGMENT == SEGMENT_SIZE \div SMALL_PAGE_SIZE
MAX_ALIGN_SIZE == 16
PAGE_HUGE_ALIGN == 256 * 1024
SEGMENT_CACHE_MAX == 32
SEGMENT_CACHE_FRACTION == 8
\* size_of::<Segment>() and size_of::<Page>() on a 64-bit target
SizeofSegment == 104
SizeofPage == 96
\* os_page_size()
OsPageSize == 4096
\* option_get(option_secure): the options reader is not part of the sources; the
\* option is 0 unless a specification sets it
option_secure == cfg.secure

\* option_is_enabled(option_page_reset)
option_page_reset == cfg.page_reset

Null == 0
Threads == 1 .. NThreads
SegIds == 1 .. NSegs
PageIdx == 0 .. (MaxSmallPages - 1)

PAGE_SMALL == "PAGE_SMALL"
PAGE_LARGE == "PAGE_LARGE"
PAGE_HUGE == "PAGE_HUGE"

\* block sizes requested from _segment_page_alloc: one per page kind, and two huge
\* ones whose segments are smaller and larger than SEGMENT_SIZE
BlockSizes == {16, 65536, 524288, 5242880}

(***************************************************************************)
(* Records                                                                 *)
(***************************************************************************)
\* a page control block, zeroed (heap = Null: in no heap's page queue)
EmptyPage ==
  [segment_idx |-> 0, segment_in_use |-> FALSE, is_reset |-> FALSE, used |-> 0,
   thread_freed |-> 0, heap |-> Null]

\* an address at which no segment is mapped (os_size: the bytes the OS has mapped at
\* the address, which is no field of the segment)
Unmapped ==
  [mapped |-> FALSE, next |-> Null, prev |-> Null, abandoned_next |-> Null,
   abandoned |-> 0, used |-> 0, capacity |-> 0, segment_size |-> 0,
   thread_id |-> 0, page_kind |-> "none", pages |-> [i \in PageIdx |-> EmptyPage],
   guards |-> {}, os_size |-> 0]

EmptyQueue == [first |-> Null, last |-> Null]

EmptyTld ==
  [small_free |-> EmptyQueue, current_size |-> 0, peak_size |-> 0,
   cache_count |-> 0, cache_size |-> 0, cache |-> EmptyQueue,
   segments |-> [allocated |-> 0, freed |-> 0]]

\* locals of a call that is inside one of the CAS loops
NoLoc == [segment |-> Null, next |-> Null, atmost |-> 0, reclaimed |-> 0, popped |-> 0,
          try_all |-> FALSE]


\* _os_alloc_aligned has not been called: nothing is mapped (maps: the mapped
\* address ranges <<from, to>>; reserved: stats.reserved.current)
NoOs == [windows |-> FALSE, pc |-> "idle", size |-> 0, align |-> 0, asked |-> 0,
         hint |-> Null, p |-> Null, tries |-> 0, maps |-> {}, reserved |-> 0,
         ret |-> Null]

\* the statics of init.rs before process_init, and the threads before thread_init
\* (pages[0]: the pages of heap_main; steps: what is left to do of heap_done;
\* threads: what the thread has added to stats.threads; ret: the last call of heap_init
\* or heap_done, whether the default heap was initialized at its entry, and its
\* result; last: the call of thread_init or thread_done that returned last)
NoProc ==
  [process_is_initialized |-> FALSE, process_done |-> FALSE, collections |-> 0,
   heap_main |-> [thread_id |-> 0, cookie |-> 0, random |-> 0],
   completed |-> FALSE, early |-> FALSE, main_freed |-> FALSE,
   heap_default |-> [t \in 1 .. NThreads |-> "heap_empty"],
   td |-> [t \in 1 .. NThreads |-> "none"],
   pages |-> [h \in 0 .. NThreads |-> 0],
   abandoned |-> [t \in 1 .. NThreads |-> 0],
   pc |-> [t \in 1 .. NThreads |-> "idle"],
   steps |-> [t \in 1 .. NThreads |-> <<>>],
   threads |-> [t \in 1 .. NThreads |-> 0],
   ret |-> [t \in 1 .. NThreads |-> [call |-> "none", was |-> FALSE, value |-> FALSE]],
   last |-> [t \in 1 .. NThreads |-> "none"]]

\* a page that no other thread has freed a block of (thread_free: the head of the
\* list and the two flag bits, pointer * 4 + tag; next: Block.next of each block;
\* pushed, drained: the blocks that went onto the list and that the owner took off)
NoTf ==
  [thread_free |-> 0, thread_freed |-> 0, next |-> [b \in 1 .. MaxFreed |-> 0],
   delayed |-> {}, pushed |-> {}, drained |-> <<>>,
   pc |-> [t \in 1 .. NThreads |-> "idle"],
   block |-> [t \in 1 .. NThreads |-> 0],
   seen |-> [t \in 1 .. NThreads |-> 0]]

\* a StatCount that was never updated (reached: the largest value of current so
\* far; fetched, old_peak: the locals `current` and `old_peak` of _stat_update)
NoStat ==
  [allocated |-> 0, freed |-> 0, peak |-> 0, current |-> 0,
   reached |-> 0, calls |-> 0, callers |-> {},
   pc |-> [t \in 1 .. NThreads |-> "idle"],
   amount |-> [t \in 1 .. NThreads |-> 0],
   fetched |-> [t \in 1 .. NThreads |-> 0],
   old_peak |-> [t \in 1 .. NThreads |-> 0]]

\* the blocks of a page before a link is written (secure: built with MI_SECURE;
\* next: Block.next; set: the pointer of the last block_set_next, got: that of
\* the last block_next; -1: none yet)
NoLink ==
  [secure |-> FALSE, cookie |-> 0, next |-> [b \in 1 .. 2 |-> 0],
   set |-> [b \in 1 .. 2 |-> -1], got |-> [b \in 1 .. 2 |-> -1]]

\* no call of mul_overflow (checks: built with overflow checks, as the debug profile
\* is; pc: "none", "call" with size chosen, "done" when it returned, "panic")
NoMul ==
  [checks |-> FALSE, size |-> 0, count |-> 0, total |-> 0, ret |-> FALSE, pc |-> "none"]

InitExt ==
  /\ os = NoOs /\ proc = NoProc /\ tf = NoTf /\ stat_count = NoStat /\ link = NoLink
  /\ mul = NoMul

\* the thread-local view threaded through the operators below
Run(st) == st.halt = "run"
Panic(st) == [st EXCEPT !.halt = "panic"]
Ret(st, v) == [st EXCEPT !.ret = v]
Flag(st, b) == [st EXCEPT !.flag = b]

(***************************************************************************)
(* Arithmetic helpers                                                      *)
(***************************************************************************)
_align_up(size, align) ==
  LET x == (size \div align) * align
  IN IF x < size THEN x + align ELSE x

(***************************************************************************)
(* Segment queues                                                          *)
(***************************************************************************)
RECURSIVE QueueWalk(_, _, _, _)
QueueWalk(sg, list, segment, fuel) ==
  IF list = Null \/ list = segment \/ fuel = 0 THEN list
  ELSE QueueWalk(sg, sg[list].next, segment, fuel - 1)

segment_queue_contains(sg, queue, segment) ==
  QueueWalk(sg, queue.first, segment, Cardinality(DOMAIN sg) + 1) = segment

segment_queue_is_empty(queue) == queue.first = Null

segment_queue_remove(st, qn, segment) ==
  IF ~Run(st) THEN st
  ELSE IF ~segment_queue_contains(st.seg, st.tld[qn], segment) THEN Panic(st)
  ELSE
    LET sg == st.seg
        q == st.tld[qn]
        s == sg[segment]
        sg1 == IF s.prev # Null THEN [sg EXCEPT ![s.prev].next = s.next] ELSE sg
        sg2 == IF s.next # Null THEN [sg1 EXCEPT ![s.next].prev = s.prev] ELSE sg1
        q1 == [first |-> IF segment = q.first THEN s.next ELSE q.first,
               last |-> IF segment = q.last THEN s.prev ELSE q.last]
    IN [st EXCEPT !.seg = [sg2 EXCEPT ![segment].next = Null, ![segment].prev = Null],
                  !.tld[qn] = q1]

segment_enqueue(st, qn, segment) ==
  IF ~Run(st) THEN st
  ELSE IF segment_queue_contains(st.seg, st.tld[qn], segment) THEN Panic(st)
  ELSE
    LET sg == st.seg
        q == st.tld[qn]
        sg1 == [sg EXCEPT ![segment].next = Null, ![segment].prev = q.last]
    IN IF q.last # Null
       THEN [st EXCEPT !.seg = [sg1 EXCEPT ![q.last].next = segment],
                       !.tld[qn] = [q EXCEPT !.last = segment]]
       ELSE [st EXCEPT !.seg = sg1,
                       !.tld[qn] = [first |-> segment, last |-> segment]]

segment_queue_insert_before(st, qn, elem, segment) ==
  IF ~Run(st) THEN st
  ELSE IF ~(elem = Null \/ segment_queue_contains(st.seg, st.tld[qn], elem)) THEN Panic(st)
  ELSE IF segment_queue_contains(st.seg, st.tld[qn], segment) THEN Panic(st)
  ELSE
    LET sg == st.seg
        q == st.tld[qn]
        prev == IF elem = Null THEN q.last ELSE sg[elem].prev
        sg1 == [sg EXCEPT ![segment].prev = prev, ![segment].next = elem]
        sg2 == IF prev # Null THEN [sg1 EXCEPT ![prev].next = segment] ELSE sg1
        sg3 == IF elem # Null THEN [sg2 EXCEPT ![elem].prev = segment] ELSE sg2
        q1 == [first |-> IF prev # Null THEN q.first ELSE segment,
               last |-> IF elem # Null THEN q.last ELSE segment]
    IN [st EXCEPT !.seg = sg3, !.tld[qn] = q1]

\* the members of a queue, from first to last
RECURSIVE QueueSeq(_, _, _)
QueueSeq(sg, list, fuel) ==
  IF list = Null \/ fuel = 0 THEN <<>>
  ELSE <<list>> \o QueueSeq(sg, sg[list].next, fuel - 1)

QueueMembers(sg, queue) ==
  LET q == QueueSeq(sg, queue.first, Cardinality(DOMAIN sg))
  IN {q[k] : k \in 1 .. Len(q)}

\* usize comparison: a negative number stands for a value that wrapped below zero
ULess(a, b) == IF a < 0 THEN FALSE ELSE IF b < 0 THEN TRUE ELSE a < b

(***************************************************************************)
(* Addresses                                                               *)
(***************************************************************************)
\* an os_mem_alloc_aligned that returns what the first mmap returned
os_mem_alloc_aligned_hint(p, over, align) == p

\* os_mem_alloc_aligned: the address it returns, p being what mmap returned when
\* called with the hint and over what it returned for the over-allocation
os_mem_alloc_aligned(p, over, align) ==
  IF p % align = 0 THEN p ELSE _align_up(over, align)

\* ptr_segment: p & !MI_SEGMENT_MASK
ptr_segment(p) == p - (p % SEGMENT_SIZE)

\* the page_shift that segment_alloc is called with
PageShift(page_kind) ==
  IF page_kind = PAGE_SMALL THEN MI_SMALL_PAGE_SHIFT
  ELSE IF page_kind = PAGE_LARGE THEN MI_LARGE_PAGE_SHIFT
  ELSE MI_SEGMENT_SHIFT

\* segment_page_of: the index in pages of the page of p, for the segment s at the
\* address segment
segment_page_of(segment, s, p) == (p - segment) \div (2 ^ PageShift(s.page_kind))

\* the slot of page idx of the segment s at the address segment: its address and size
PageSlot(segment, s, idx) ==
  [p |-> segment + idx * (IF s.page_kind = PAGE_HUGE THEN s.segment_size
                          ELSE 2 ^ PageShift(s.page_kind)),
   psize |-> IF s.page_kind = PAGE_HUGE THEN s.segment_size
             ELSE 2 ^ PageShift(s.page_kind)]

\* segment_page_start: the first page starts after the segment info
PageAfterInfo(a, info_size, idx) ==
  IF idx = 0 THEN [p |-> a.p + info_size, psize |-> a.psize - info_size] ELSE a

\* segment_page_start: the first page of a SMALL segment starts at a multiple of
\* block_size
PageAdjusted(a, s, idx, block_size) ==
  IF idx = 0 /\ block_size > 0 /\ s.page_kind = PAGE_SMALL
     /\ block_size - (a.p % block_size) < block_size
  THEN [p |-> a.p + (block_size - (a.p % block_size)),
        psize |-> a.psize - (block_size - (a.p % block_size))]
  ELSE a

\* segment_page_start: the last page, or every page, ends with a guard page
PageGuarded(a, s, idx) ==
  IF option_secure > 1 \/ (option_secure = 1 /\ idx = s.capacity - 1)
  THEN [a EXCEPT !.psize = @ - OsPageSize] ELSE a

(***************************************************************************)
(* Segment sizes and size tracking                                         *)
(***************************************************************************)
segment_info_size(capacity) ==
  LET minsize == SizeofSegment + ((capacity - 1) * SizeofPage) + 16
  IN IF option_secure = 0
     THEN _align_up(minsize, IF 16 > MAX_ALIGN_SIZE THEN 16 ELSE MAX_ALIGN_SIZE)
     ELSE _align_up(minsize, OsPageSize)

\* segment_page_start of page idx of the segment s at the address segment: p is
\* the start of the page's memory and psize its size
segment_page_start(segment, s, idx, block_size) ==
  PageGuarded(
    PageAdjusted(
      PageAfterInfo(PageSlot(segment, s, idx),
                    segment_info_size(s.capacity)
                      + (IF option_secure = 0 THEN 0 ELSE OsPageSize), idx),
      s, idx, block_size),
    s, idx)

\* a segment_size that is never below SEGMENT_SIZE
segment_size_floor(capacity, required) ==
  LET isize == segment_info_size(capacity)
      guardsize == IF option_secure = 0 THEN 0 ELSE OsPageSize
      size == _align_up(required + isize + 2 * guardsize, PAGE_HUGE_ALIGN)
  IN IF size < SEGMENT_SIZE THEN SEGMENT_SIZE ELSE size

segment_size(capacity, required) ==
  LET isize == segment_info_size(capacity)
      guardsize == IF option_secure = 0 THEN 0 ELSE OsPageSize
      req == IF option_secure = 0 THEN required ELSE _align_up(required, OsPageSize)
  IN IF req = 0 THEN SEGMENT_SIZE
     ELSE _align_up(req + isize + 2 * guardsize, PAGE_HUGE_ALIGN)

\* _stat_update on the allocated and freed counts of a StatCount
_stat_update(stat, amount) ==
  IF amount = 0 THEN stat
  ELSE IF amount > 0 THEN [stat EXCEPT !.allocated = @ + amount]
  ELSE [stat EXCEPT !.freed = @ + (0 - amount)]

_stat_increase(stat, amount) == _stat_update(stat, amount)

_stat_decrease(stat, amount) == _stat_update(stat, 0 - amount)

\* the `segments` statistic is counted where cfg.stats is set
segments_track_size(st, size) ==
  LET cur == st.tld.current_size + size
  IN [st EXCEPT !.tld.current_size = cur,
                !.tld.peak_size = IF cur > @ THEN cur ELSE @,
                !.tld.segments = IF ~cfg.stats THEN @
                                 ELSE IF size >= 0 THEN _stat_increase(@, 1)
                                 ELSE _stat_decrease(@, 1)]

\* segment_os_free that does not track the size
segment_os_free_untracked(st, segment, size) ==
  IF ~Run(st) THEN st
  ELSE [st EXCEPT !.seg[segment] = Unmapped]

\* _os_free: the mapping at the segment's address is gone
segment_os_free(st, segment, size) ==
  IF ~Run(st) THEN st
  ELSE [segments_track_size(st, 0 - size) EXCEPT !.seg[segment] = Unmapped]

\* an _mi_os_shrink that the OS never refuses
_os_shrink_succeeds(oldsize, newsize, munmap_ok) == oldsize >= newsize

\* _mi_os_shrink on sizes that are multiples of the OS page size: the tail is
\* unmapped, and the result is that of munmap
_os_shrink(oldsize, newsize, munmap_ok) ==
  IF oldsize < newsize THEN FALSE
  ELSE IF oldsize = newsize THEN TRUE
  ELSE IF (oldsize - newsize) % OsPageSize # 0 THEN FALSE
  ELSE munmap_ok

(***************************************************************************)
(* Segment cache                                                           *)
(***************************************************************************)
\* a _segment_cache_findx that returns its candidate as it is
CacheTake_unshrunk(st, segment, required, munmap_ok) ==
  IF ~Run(st) THEN Ret(st, Null) ELSE Ret(st, segment)

\* _segment_cache_findx once the candidate `segment` is out of the cache queue
CacheTake(st, segment, required, munmap_ok) ==
  LET size == st.seg[segment].segment_size IN
  IF ~Run(st) THEN Ret(st, Null)
  ELSE IF required = 0 \/ size = required THEN Ret(st, segment)
  ELSE IF required # SEGMENT_SIZE /\ size - (size \div 4) <= required
    THEN Ret(st, segment)
  ELSE IF _os_shrink(size, required, munmap_ok)
    THEN Ret([st EXCEPT !.tld.current_size = (@ - size) + required,
                        !.seg[segment].segment_size = required,
                        !.seg[segment].os_size = required], segment)
  ELSE Ret(segment_os_free(st, segment, size), Null)

RECURSIVE CacheFindFrom(_, _, _, _, _, _)
CacheFindFrom(st, segment, required, reverse, munmap_ok, fuel) ==
  IF segment = Null \/ fuel = 0 THEN Ret(st, Null)
  ELSE IF st.seg[segment].segment_size >= required
    THEN CacheTake(segment_queue_remove(
                     [st EXCEPT !.tld.cache_count = @ - 1,
                                !.tld.cache_size = @ - st.seg[segment].segment_size],
                     "cache", segment),
                   segment, required, munmap_ok)
  ELSE CacheFindFrom(st, IF reverse THEN st.seg[segment].prev ELSE st.seg[segment].next,
                     required, reverse, munmap_ok, fuel - 1)

_segment_cache_findx(st, required, reverse, munmap_ok) ==
  IF ~Run(st) THEN Ret(st, Null)
  ELSE CacheFindFrom(st, IF reverse THEN st.tld.cache.last ELSE st.tld.cache.first,
                     required, reverse, munmap_ok, Cardinality(DOMAIN st.seg))

segment_cache_find(st, required, munmap_ok) ==
  _segment_cache_findx(st, required, FALSE, munmap_ok)

segment_cache_evict(st) == _segment_cache_findx(st, 0, TRUE, TRUE)

\* segment_cache_full: the segment that segment_cache_evict returned goes to the OS
CacheEvicted(st) ==
  IF st.ret # Null THEN segment_os_free(st, st.ret, st.seg[st.ret].segment_size) ELSE st

RECURSIVE CacheReduce(_, _)
CacheReduce(st, fuel) ==
  IF ~Run(st) \/ fuel = 0 THEN st
  ELSE IF st.tld.cache_size * SEGMENT_CACHE_FRACTION >= st.tld.peak_size + 1
  THEN CacheReduce(CacheEvicted(segment_cache_evict(st)), fuel - 1)
  ELSE st

\* a segment_cache_full that tests the caps again after it has reduced the cache
segment_cache_full_retests(st) ==
  IF st.tld.cache_count < SEGMENT_CACHE_MAX
     /\ st.tld.cache_size * SEGMENT_CACHE_FRACTION < st.tld.peak_size
  THEN Flag(st, FALSE)
  ELSE LET r == CacheReduce(st, Cardinality(DOMAIN st.seg) + 1)
       IN Flag(r, ~(r.tld.cache_count < SEGMENT_CACHE_MAX
                    /\ r.tld.cache_size * SEGMENT_CACHE_FRACTION < r.tld.peak_size))

segment_cache_full(st) ==
  IF st.tld.cache_count < SEGMENT_CACHE_MAX
     /\ st.tld.cache_size * SEGMENT_CACHE_FRACTION < st.tld.peak_size
  THEN Flag(st, FALSE)
  ELSE Flag(CacheReduce(st, Cardinality(DOMAIN st.seg) + 1), TRUE)

\* a search of segment_cache_insert that stops at the first segment of the cache
CacheInsertPos_first(sg, s, size, fuel) == s

RECURSIVE CacheInsertPos(_, _, _, _)
CacheInsertPos(sg, s, size, fuel) ==
  IF s # Null /\ fuel > 0 /\ sg[s].segment_size < size
  THEN CacheInsertPos(sg, sg[s].next, size, fuel - 1)
  ELSE s

\* segment_cache_insert once segment_cache_full has returned (st.flag)
CacheInsertOrdered(st, segment) ==
  IF ~Run(st) \/ st.flag THEN Flag(st, FALSE)
  ELSE
    LET size == st.seg[segment].segment_size
        pos == CacheInsertPos(st.seg, st.tld.cache.first, size, Cardinality(DOMAIN st.seg))
    IN Flag([segment_queue_insert_before(st, "cache", pos, segment)
               EXCEPT !.tld.cache_count = @ + 1, !.tld.cache_size = @ + size], TRUE)

segment_cache_insert(st, segment) ==
  IF ~Run(st) THEN Flag(st, FALSE)
  ELSE IF segment_queue_contains(st.seg, st.tld.cache, segment) THEN Flag(Panic(st), FALSE)
  ELSE CacheInsertOrdered(segment_cache_full(st), segment)

\* a loop body of _segment_thread_collect that leaves the loop
ThreadCollectFree_once(st, fuel) ==
  IF st.ret = Null THEN st
  ELSE segment_os_free(st, st.ret, st.seg[st.ret].segment_size)

\* _segment_thread_collect: find(tld, 0) until the cache is empty
RECURSIVE ThreadCollectLoop(_, _)
RECURSIVE ThreadCollectFree(_, _)
ThreadCollectLoop(st, fuel) ==
  IF ~Run(st) \/ fuel = 0 THEN st
  ELSE ThreadCollectFree(segment_cache_find(st, 0, TRUE), fuel)

\* the body of the loop: the segment found goes to the OS
ThreadCollectFree(st, fuel) ==
  IF st.ret = Null THEN st
  ELSE ThreadCollectLoop(segment_os_free(st, st.ret, st.seg[st.ret].segment_size),
                         fuel - 1)

_segment_thread_collect(st) == ThreadCollectLoop(st, Cardinality(DOMAIN st.seg) + 1)

(***************************************************************************)
(* Segment allocation and free                                             *)
(***************************************************************************)
SegmentCapacity(page_kind) == IF page_kind = PAGE_SMALL THEN cfg.pages ELSE 1

\* what _os_alloc_aligned returns: Null, or an address at which nothing is mapped
\* (the lowest one: which address the OS picks makes no difference to the program)
_os_alloc_aligned(sg, os_ok) ==
  LET free == {s \in DOMAIN sg : ~sg[s].mapped}
  IN IF ~os_ok \/ free = {} THEN Null
     ELSE CHOOSE s \in free : \A u \in free : s <= u

\* segment_alloc: "and otherwise allocate it from the OS" (st.ret: the cache's segment)
segment_alloc_os(st, size, os_ok) ==
  IF ~Run(st) \/ st.ret # Null THEN st
  ELSE IF _os_alloc_aligned(st.seg, os_ok) = Null THEN [st EXCEPT !.oom = TRUE]
  ELSE Ret(segments_track_size(st, size), _os_alloc_aligned(st.seg, os_ok))

\* segment_alloc: what it protects of a segment in secure mode, as <<from, to>>
\* relative to the segment: the OS page after the segment info, and the last OS
\* page of the segment or of every page
segment_alloc_protect(page_kind, capacity, size) ==
  IF option_secure = 0 THEN {}
  ELSE {<<segment_info_size(capacity), segment_info_size(capacity) + OsPageSize>>}
       \cup (IF option_secure <= 1 THEN {<<size - OsPageSize, size>>}
             ELSE {<<(i + 1) * (IF page_kind = PAGE_HUGE THEN size
                                ELSE 2 ^ PageShift(page_kind)) - OsPageSize,
                     (i + 1) * (IF page_kind = PAGE_HUGE THEN size
                                ELSE 2 ^ PageShift(page_kind))>> : i \in 0 .. capacity - 1})

\* a segment_alloc that never unprotects a segment from the cache
segment_alloc_guards_stale(s, page_kind, capacity, size) ==
  s.guards \cup segment_alloc_protect(page_kind, capacity, size)

\* segment_alloc: the protected ranges of the segment, s being what the cache
\* returned (a segment of another page kind or size is unprotected first) or a
\* new mapping
segment_alloc_guards(s, page_kind, capacity, size) ==
  (IF option_secure # 0 /\ (s.page_kind # page_kind \/ s.segment_size # size)
   THEN {} ELSE s.guards)
    \cup segment_alloc_protect(page_kind, capacity, size)

\* segment_alloc: the page control blocks after the memset, with their segment_idx
segment_alloc_pages(capacity) ==
  [i \in PageIdx |-> IF i < capacity THEN [EmptyPage EXCEPT !.segment_idx = i]
                     ELSE EmptyPage]

\* a segment_alloc that leaves a segment from the cache with the size it had
segment_alloc_init_keeps_size(st, t, page_kind, capacity, size) ==
  IF ~Run(st) \/ st.ret = Null THEN Ret(st, Null)
  ELSE [st EXCEPT !.seg[st.ret] =
          [Unmapped EXCEPT !.mapped = TRUE, !.page_kind = page_kind,
                           !.capacity = capacity,
                           !.segment_size = IF st.seg[st.ret].mapped
                                            THEN st.seg[st.ret].segment_size ELSE size,
                           !.thread_id = t,
                           !.os_size = IF st.seg[st.ret].mapped
                                       THEN st.seg[st.ret].os_size ELSE size,
                           !.pages = segment_alloc_pages(capacity),
                           !.guards = segment_alloc_guards(st.seg[st.ret], page_kind,
                                                           capacity, size)]]

\* segment_alloc: the memset and the fields of the new segment st.ret
segment_alloc_init(st, t, page_kind, capacity, size) ==
  IF ~Run(st) \/ st.ret = Null THEN Ret(st, Null)
  ELSE [st EXCEPT !.seg[st.ret] =
          [Unmapped EXCEPT !.mapped = TRUE, !.page_kind = page_kind,
                           !.capacity = capacity, !.segment_size = size,
                           !.thread_id = t,
                           !.os_size = IF st.seg[st.ret].mapped
                                       THEN st.seg[st.ret].os_size ELSE size,
                           !.pages = segment_alloc_pages(capacity),
                           !.guards = segment_alloc_guards(st.seg[st.ret], page_kind,
                                                           capacity, size)]]

segment_alloc(st, t, required, page_kind, os_ok, munmap_ok) ==
  LET capacity == SegmentCapacity(page_kind)
      size == segment_size(capacity, required)
  IN segment_alloc_init(
       segment_alloc_os(segment_cache_find(st, size, munmap_ok), size, os_ok),
       t, page_kind, capacity, size)

\* segment_is_in_free_queue: its two assert!s are PanicInFreeQueue
segment_is_in_free_queue(st, segment) ==
  \/ st.seg[segment].next # Null
  \/ st.seg[segment].prev # Null
  \/ st.tld.small_free.first = segment

PanicInFreeQueue(st, segment) ==
  /\ segment_is_in_free_queue(st, segment)
  /\ \/ st.seg[segment].page_kind # PAGE_SMALL
     \/ ~segment_queue_contains(st.seg, st.tld.small_free, segment)

\* segment_free that returns the segment to the OS whatever the cache has done
segment_free_release_to_os(st, segment) ==
  IF ~Run(st) THEN st
  ELSE segment_os_free(st, segment, st.seg[segment].segment_size)

\* segment_free: to the OS unless the cache has taken the segment (st.flag)
segment_free_release(st, segment) ==
  IF ~Run(st) THEN st
  ELSE IF st.flag THEN st
  ELSE segment_os_free(st, segment, st.seg[segment].segment_size)

\* segment_free: thread_id is cleared, and is_reset of every page
segment_free_owner(st, segment) ==
  [st EXCEPT !.seg[segment].thread_id = 0,
             !.seg[segment].pages =
                [i \in PageIdx |-> IF i < st.seg[segment].capacity
                                   THEN [@[i] EXCEPT !.is_reset = FALSE] ELSE @[i]]]

\* segment_free that offers the segment to the cache whatever `force` is
segment_free_unqueued_caches(st, segment, force) ==
  IF ~Run(st) THEN st
  ELSE segment_free_release(
         segment_cache_insert(segment_free_owner(st, segment), segment),
         segment)

\* segment_free once the segment is out of the small_free queue
segment_free_unqueued(st, segment, force) ==
  IF ~Run(st) THEN st
  ELSE IF \/ segment_queue_contains(st.seg, st.tld.small_free, segment)
          \/ st.seg[segment].next # Null
          \/ st.seg[segment].prev # Null
    THEN Panic(st)
  ELSE segment_free_release(
         IF force THEN Flag(segment_free_owner(st, segment), FALSE)
         ELSE segment_cache_insert(segment_free_owner(st, segment), segment),
         segment)

segment_free(st, segment, force) ==
  IF ~Run(st) THEN st
  ELSE IF PanicInFreeQueue(st, segment) THEN Panic(st)
  ELSE segment_free_unqueued(
         IF segment_is_in_free_queue(st, segment)
         THEN segment_queue_remove(st, "small_free", segment) ELSE st,
         segment, force)

segment_has_free(s) == ULess(s.used, s.capacity)

\* segment_find_free: the first slot not in use, or -1 (assert(false))
segment_find_free(s) ==
  LET free == {i \in PageIdx : i < s.capacity /\ ~s.pages[i].segment_in_use}
  IN IF free = {} THEN 0 - 1 ELSE CHOOSE i \in free : \A j \in free : i <= j

\* are all blocks in a page freed?
page_all_free(page) == page.used - page.thread_freed = 0

\* a segment_page_clear that zeroes the whole page control block
segment_page_zeroed(page) == EmptyPage

\* segment_page_clear: the page control block once the page memory is reset (with
\* option_page_reset) and the block is zeroed but for segment_idx and is_reset
segment_page_cleared(page) ==
  [EmptyPage EXCEPT !.segment_idx = page.segment_idx,
                    !.is_reset = page.is_reset \/ option_page_reset]

\* segment_page_clear that leaves the segment's used count as it is
segment_page_clear_keeps_used(st, segment, i) ==
  IF ~Run(st) THEN st
  ELSE [st EXCEPT !.seg[segment].pages[i] = segment_page_cleared(@)]

segment_page_clear(st, segment, i) ==
  IF ~Run(st) THEN st
  ELSE [st EXCEPT !.seg[segment].pages[i] = segment_page_cleared(@),
                  !.seg[segment].used = @ - 1]

\* segment_abandon once the segment is out of the small_free queue
segment_abandon_unqueued(st, segment) ==
  IF ~Run(st) THEN st
  ELSE [st EXCEPT !.seg[segment].thread_id = 0, !.push = segment]

\* segment_abandon up to its CAS loop: out of the free queue, thread_id cleared
segment_abandon(st, segment) ==
  IF ~Run(st) THEN st
  ELSE IF PanicInFreeQueue(st, segment) THEN Panic(st)
  ELSE segment_abandon_unqueued(
         IF segment_is_in_free_queue(st, segment)
         THEN segment_queue_remove(st, "small_free", segment) ELSE st,
         segment)

\* _segment_page_free that looks at used = abandoned first
_segment_page_free_abandons_first(st, segment, i, force) ==
  LET st1 == segment_page_clear(st, segment, i)
      s == st1.seg[segment]
  IN IF s.used = s.abandoned THEN segment_abandon(st1, segment)
     ELSE IF s.used = 0 THEN segment_free(st1, segment, force)
     ELSE IF s.used + 1 = s.capacity THEN segment_enqueue(st1, "small_free", segment)
     ELSE st1

\* _segment_page_free; push = the segment when the segment is to be pushed on the stack
_segment_page_free(st, segment, i, force) ==
  LET st1 == segment_page_clear(st, segment, i)
      s == st1.seg[segment]
  IN IF s.used = 0 THEN segment_free(st1, segment, force)
     ELSE IF s.used = s.abandoned THEN segment_abandon(st1, segment)
     ELSE IF s.used + 1 = s.capacity THEN segment_enqueue(st1, "small_free", segment)
     ELSE st1

\* _segment_page_abandon (the page has left its heap's queue: heap = Null)
_segment_page_abandon(st, segment, i) ==
  LET st1 == [st EXCEPT !.seg[segment].abandoned = @ + 1,
                        !.seg[segment].pages[i].heap = Null]
      s == st1.seg[segment]
  IN IF s.used = s.abandoned THEN segment_abandon(st1, segment) ELSE st1

\* _page_reclaim that leaves the page out of the heap
_page_reclaim_nowhere(st, t, segment, i) == st

\* _page_reclaim(heap, page): the page enters a page queue of the heap of thread t
_page_reclaim(st, t, segment, i) == [st EXCEPT !.seg[segment].pages[i].heap = t]

\* the loop of _segment_try_reclaim_abandoned over the page slots, from slot i on
RECURSIVE ReclaimPages(_, _, _, _)
ReclaimPages(st, t, segment, i) ==
  IF ~Run(st) \/ i >= st.seg[segment].capacity THEN st
  ELSE
    LET page == st.seg[segment].pages[i] IN
    IF page.segment_in_use
    THEN LET st1 == [st EXCEPT !.seg[segment].abandoned = @ - 1]
         IN ReclaimPages(IF page_all_free(page)
                         THEN segment_page_clear(st1, segment, i)
                         ELSE _page_reclaim(st1, t, segment, i), t, segment, i + 1)
    ELSE ReclaimPages(st, t, segment, i + 1)

\* the end of the body: the segment is freed when no page is left, and counted if not
ReclaimCounted(st, segment) ==
  IF ~Run(st) THEN st
  ELSE IF st.seg[segment].abandoned # 0 THEN Panic(st)
  ELSE IF st.seg[segment].used = 0
    THEN Flag(segment_free(st, segment, FALSE), FALSE)
  ELSE Flag(st, TRUE)

\* the body from the assert of abandoned == used on
ReclaimAdopt(st, t, segment) ==
  IF ~Run(st) THEN st
  ELSE IF st.seg[segment].abandoned # st.seg[segment].used THEN Panic(st)
  ELSE ReclaimCounted(ReclaimPages(st, t, segment, 0), segment)

\* the body from "add its free pages to the current thread" on
ReclaimEnqueued(st, t, segment) ==
  ReclaimAdopt(IF st.seg[segment].page_kind = PAGE_SMALL
                  /\ segment_has_free(st.seg[segment])
               THEN segment_enqueue(st, "small_free", segment) ELSE st,
               t, segment)

\* the body of the loop of _segment_try_reclaim_abandoned once the CAS has popped
\* `segment`; flag = TRUE when `reclaimed` is incremented
ReclaimSegment(st, t, segment) ==
  IF ~st.seg[segment].mapped THEN [st EXCEPT !.halt = "fault"]
  ELSE ReclaimEnqueued(
         segments_track_size(
           [st EXCEPT !.seg[segment].thread_id = t,
                      !.seg[segment].abandoned_next = Null],
           st.seg[segment].segment_size),
         t, segment)

(***************************************************************************)
(* Page allocation                                                         *)
(***************************************************************************)
segment_small_page_alloc_in(st, segment) ==
  IF ~Run(st) THEN st
  ELSE
    LET i == segment_find_free(st.seg[segment]) IN
    IF i < 0 THEN Panic(st)
    ELSE
      LET st1 == [st EXCEPT !.seg[segment].pages[i].segment_in_use = TRUE,
                            !.seg[segment].used = @ + 1, !.idx = i, !.ret = segment]
      IN IF st1.seg[segment].used = st1.seg[segment].capacity
         THEN segment_queue_remove(st1, "small_free", segment)
         ELSE st1

\* segment_small_page_alloc: the page comes from the first segment of small_free
segment_small_page_alloc_first(st) ==
  IF ~Run(st) THEN st
  ELSE IF st.tld.small_free.first = Null THEN Panic(st)
  ELSE segment_small_page_alloc_in(st, st.tld.small_free.first)

\* segment_small_page_alloc: the new segment st.ret, if there is one, is enqueued
segment_small_page_alloc_new(st) ==
  IF ~Run(st) \/ st.ret = Null THEN st
  ELSE segment_small_page_alloc_first(segment_enqueue(st, "small_free", st.ret))

segment_small_page_alloc(st, t, os_ok, munmap_ok) ==
  IF segment_queue_is_empty(st.tld.small_free)
  THEN segment_small_page_alloc_new(segment_alloc(st, t, 0, PAGE_SMALL, os_ok, munmap_ok))
  ELSE segment_small_page_alloc_first(st)

\* segment_large_page_alloc and segment_huge_page_alloc: page 0 of the new segment
segment_first_page(st) ==
  IF ~Run(st) \/ st.ret = Null THEN st
  ELSE [st EXCEPT !.seg[st.ret].used = 1,
                  !.seg[st.ret].pages[0].segment_in_use = TRUE, !.idx = 0]

segment_large_page_alloc(st, t, os_ok, munmap_ok) ==
  segment_first_page(segment_alloc(st, t, 0, PAGE_LARGE, os_ok, munmap_ok))

segment_huge_page_alloc(st, t, size, os_ok, munmap_ok) ==
  segment_first_page(segment_alloc(st, t, size, PAGE_HUGE, os_ok, munmap_ok))

\* a _segment_page_alloc that has no LARGE pages
_segment_page_alloc_no_large(st, t, block_size, os_ok, munmap_ok) ==
  IF block_size < SMALL_PAGE_SIZE \div 8
    THEN segment_small_page_alloc(st, t, os_ok, munmap_ok)
  ELSE segment_huge_page_alloc(st, t, block_size, os_ok, munmap_ok)

\* _segment_page_alloc: ret = the page's segment (Null: no page), idx = its slot
_segment_page_alloc(st, t, block_size, os_ok, munmap_ok) ==
  IF block_size < SMALL_PAGE_SIZE \div 8
    THEN segment_small_page_alloc(st, t, os_ok, munmap_ok)
  ELSE IF block_size < LARGE_SIZE_MAX - SizeofSegment
    THEN segment_large_page_alloc(st, t, os_ok, munmap_ok)
  ELSE segment_huge_page_alloc(st, t, block_size, os_ok, munmap_ok)

(***************************************************************************)
(* The state machine                                                       *)
(***************************************************************************)
\* what thread t sees when a call starts
View(t) == [seg |-> seg, tld |-> tld[t], halt |-> halt, ret |-> Null, flag |-> FALSE,
            idx |-> 0, oom |-> FALSE, push |-> Null]

Commit(t, st) ==
  /\ seg' = st.seg
  /\ tld' = [tld EXCEPT ![t] = st.tld]
  /\ halt' = st.halt

\* a call of thread t may start: with cfg.overlap = FALSE calls of different threads do
\* not overlap (every call runs to its end before the next one starts)
MayStart(t) ==
  /\ halt = "run"
  /\ pc[t] = "idle"
  /\ t \in cfg.threads
  /\ cfg.overlap \/ \A u \in Threads : pc[u] = "idle"
  /\ cfg.stats => tld[t].segments.allocated < MaxStat

MayStep(t, at) ==
  /\ halt = "run"
  /\ pc[t] = at

TrackedMax == cfg.tracked * SEGMENT_SIZE

Owns(t, s, i) ==
  /\ seg[s].mapped
  /\ seg[s].thread_id = t
  /\ i < seg[s].capacity
  /\ seg[s].pages[i].segment_in_use
  /\ seg[s].pages[i].heap = t

InitSegments(c) ==
  /\ seg = [s \in SegIds |-> Unmapped]
  /\ tld = [t \in Threads |-> EmptyTld]
  /\ abandoned = Null
  /\ abandoned_count = 0
  /\ pc = [t \in Threads |-> "idle"]
  /\ loc = [t \in Threads |-> NoLoc]
  /\ halt = "run"
  /\ cfg = c

InitWith(c) == InitSegments(c) /\ InitExt

\* two threads and LARGE pages
Init == InitWith([overlap |-> TRUE, threads |-> Threads, sizes |-> {65536},
                  pages |-> MaxSmallPages - 1, tracked |-> MaxTracked, stats |-> FALSE, secure |-> 0, page_reset |-> FALSE])

\* two threads, SMALL and LARGE pages
InitSeq == InitWith([overlap |-> FALSE, threads |-> Threads, sizes |-> {16, 65536},
                     pages |-> MaxSmallPages - 1, tracked |-> MaxTracked - 1, stats |-> FALSE, secure |-> 0, page_reset |-> FALSE])

\* one thread and every page kind
InitCache == InitWith([overlap |-> FALSE, threads |-> {1}, sizes |-> BlockSizes,
                       pages |-> MaxSmallPages - 1, tracked |-> MaxTracked - 1, stats |-> FALSE, secure |-> 0, page_reset |-> FALSE])

\* one thread and SMALL segments of MaxSmallPages pages
InitPages == InitWith([overlap |-> FALSE, threads |-> {1}, sizes |-> {16},
                       pages |-> MaxSmallPages, tracked |-> MaxTracked - 1, stats |-> FALSE, secure |-> 0, page_reset |-> FALSE])

\* two threads, LARGE pages, and the `segments` statistic
InitStats == InitWith([overlap |-> FALSE, threads |-> Threads, sizes |-> {65536},
                       pages |-> MaxSmallPages - 1, tracked |-> MaxTracked - 1,
                       stats |-> TRUE, secure |-> 0, page_reset |-> FALSE])

\* an abandoned LARGE segment whose one page has live blocks (freed = FALSE) or none
AbandonedLarge(next, freed) ==
  [Unmapped EXCEPT !.mapped = TRUE, !.page_kind = PAGE_LARGE, !.capacity = 1,
                   !.segment_size = SEGMENT_SIZE, !.os_size = SEGMENT_SIZE,
                   !.used = 1, !.abandoned = 1,
                   !.abandoned_next = next,
                   !.pages[0] = [EmptyPage EXCEPT
                                   !.segment_in_use = TRUE, !.used = 1,
                                   !.thread_freed = IF freed THEN 1 ELSE 0]]

\* threads that have exited left k segments on the abandoned stack (segment k on top);
\* the blocks of the top f of them have been freed since
InitBudget ==
  \E k \in 0 .. MaxAbandoned : \E f \in {0, IF k > 0 THEN 1 ELSE 0} :
    /\ seg = [s \in 1 .. MaxAbandoned |->
                IF s <= k THEN AbandonedLarge(s - 1, s > k - f) ELSE Unmapped]
    /\ tld = [t \in Threads |-> EmptyTld]
    /\ abandoned = k
    /\ abandoned_count = k
    /\ pc = [t \in Threads |-> "idle"]
    /\ loc = [t \in Threads |-> NoLoc]
    /\ halt = "run"
    /\ cfg = [overlap |-> FALSE, threads |-> {1}, sizes |-> {},
              pages |-> MaxSmallPages - 1, tracked |-> MaxAbandoned, stats |-> FALSE, secure |-> 0, page_reset |-> FALSE]
    /\ InitExt

\* the caller of _segment_page_alloc puts the page it got in its heap
PageAllocated(t, st) ==
  /\ st.tld.current_size <= TrackedMax
  /\ Commit(t, IF Run(st) /\ st.ret # Null
               THEN [st EXCEPT !.seg[st.ret].pages[st.idx].heap = t] ELSE st)

\* _segment_page_alloc, and the caller binding the page to its heap
PageAlloc(t, block_size, os_ok, munmap_ok) ==
  /\ MayStart(t)
  /\ PageAllocated(t, _segment_page_alloc(View(t), t, block_size, os_ok, munmap_ok))
  /\ UNCHANGED <<abandoned, abandoned_count, pc, loc, cfg, ext>>

\* the call goes on into the CAS loop of segment_abandon (having read the head into
\* abandoned_next), or is over
AbandonOrDone(t, st) ==
  IF Run(st) /\ st.push # Null
  THEN /\ Commit(t, [st EXCEPT !.seg[st.push].abandoned_next = abandoned])
       /\ pc' = [pc EXCEPT ![t] = "ab_cas"]
       /\ loc' = [loc EXCEPT ![t] = [NoLoc EXCEPT !.segment = st.push]]
  ELSE /\ Commit(t, st)
       /\ UNCHANGED <<pc, loc>>

PageFree(t, s, i, force) ==
  /\ MayStart(t)
  /\ Owns(t, s, i)
  /\ page_all_free(seg[s].pages[i])
  /\ AbandonOrDone(t, _segment_page_free(View(t), s, i, force))
  /\ UNCHANGED <<abandoned, abandoned_count, cfg, ext>>

\* _segment_page_abandon, of a page that still has live blocks
PageAbandon(t, s, i) ==
  /\ MayStart(t)
  /\ Owns(t, s, i)
  /\ ~page_all_free(seg[s].pages[i])
  /\ AbandonOrDone(t, _segment_page_abandon(View(t), s, i))
  /\ UNCHANGED <<abandoned, abandoned_count, cfg, ext>>

\* segment_abandon: the CAS; when it fails the head is read again
AbandonCas(t) ==
  /\ MayStep(t, "ab_cas")
  /\ LET s == loc[t].segment IN
     IF abandoned = seg[s].abandoned_next
     THEN /\ abandoned' = s
          /\ pc' = [pc EXCEPT ![t] = "ab_inc"]
          /\ UNCHANGED seg
     ELSE /\ seg' = [seg EXCEPT ![s].abandoned_next = abandoned]
          /\ UNCHANGED <<abandoned, pc>>
  /\ UNCHANGED <<tld, abandoned_count, loc, halt, cfg, ext>>

\* segment_abandon: atomic_increment(&abandoned_count)
AbandonInc(t) ==
  /\ MayStep(t, "ab_inc")
  /\ abandoned_count' = abandoned_count + 1
  /\ pc' = [pc EXCEPT ![t] = "idle"]
  /\ loc' = [loc EXCEPT ![t] = NoLoc]
  /\ UNCHANGED <<seg, tld, abandoned, halt, cfg, ext>>

\* atmost without its floor of 8
AtMost_no_floor(count, try_all) ==
  IF try_all THEN count + 16
  ELSE IF count < 0 THEN 0 - 1
  ELSE count \div 8

\* `atmost` of _segment_try_reclaim_abandoned from the counter it reads (a negative
\* counter is one that wrapped below zero, and so is a negative atmost)
AtMost(count, try_all) ==
  IF try_all THEN count + 16
  ELSE IF count < 0 THEN 0 - 1
  ELSE IF count \div 8 < 8 THEN 8 ELSE count \div 8

\* bytes of the segments a reclaim could adopt
AbandonedBytes ==
  LET RECURSIVE Sum(_)
      Sum(S) == IF S = {} THEN 0
                ELSE LET x == CHOOSE y \in S : TRUE
                     IN seg[x].segment_size + Sum(S \ {x})
  IN Sum({s \in DOMAIN seg : seg[s].mapped /\ seg[s].thread_id = 0 /\ seg[s].abandoned > 0})

ReclaimStart(t, try_all) ==
  /\ MayStart(t)
  /\ tld[t].current_size + AbandonedBytes <= TrackedMax
  /\ pc' = [pc EXCEPT ![t] = "rc_head"]
  /\ loc' = [loc EXCEPT ![t] = [NoLoc EXCEPT !.atmost = AtMost(abandoned_count, try_all),
                                             !.try_all = try_all]]
  /\ UNCHANGED <<seg, tld, abandoned, abandoned_count, halt, cfg, ext>>

\* a return value that counts every popped segment
ReclaimResult_popped(t) == loc[t].popped > 0

\* the value _segment_try_reclaim_abandoned returns
ReclaimResult(t) == loc[t].reclaimed > 0

\* _segment_try_reclaim_abandoned returns: the call is over
ReclaimReturn(t) ==
  /\ pc' = [pc EXCEPT ![t] = "idle"]
  /\ loc' = [loc EXCEPT ![t] = NoLoc]

\* the head of the loop: while (atmost > reclaimed), and the read of `abandoned`
ReclaimHead(t) ==
  /\ MayStep(t, "rc_head")
  /\ IF ULess(loc[t].reclaimed, loc[t].atmost) /\ abandoned # Null
     THEN /\ pc' = [pc EXCEPT ![t] = "rc_next"]
          /\ loc' = [loc EXCEPT ![t].segment = abandoned]
     ELSE ReclaimReturn(t)
  /\ UNCHANGED <<seg, tld, abandoned, abandoned_count, halt, cfg, ext>>

\* the read of (*segment).abandoned_next, the new head the CAS is to install
ReclaimNext(t) ==
  /\ MayStep(t, "rc_next")
  /\ IF seg[loc[t].segment].mapped
     THEN /\ loc' = [loc EXCEPT ![t].next = seg[loc[t].segment].abandoned_next]
          /\ pc' = [pc EXCEPT ![t] = "rc_cas"]
          /\ UNCHANGED halt
     ELSE /\ halt' = "fault"
          /\ UNCHANGED <<loc, pc>>
  /\ UNCHANGED <<seg, tld, abandoned, abandoned_count, cfg, ext>>

\* the CAS of the pop; when it fails the head is read again
ReclaimCas(t) ==
  /\ MayStep(t, "rc_cas")
  /\ IF abandoned = loc[t].segment
     THEN /\ abandoned' = loc[t].next
          /\ pc' = [pc EXCEPT ![t] = "rc_dec"]
          /\ UNCHANGED loc
     ELSE /\ UNCHANGED abandoned
          /\ IF abandoned # Null
             THEN /\ pc' = [pc EXCEPT ![t] = "rc_next"]
                  /\ loc' = [loc EXCEPT ![t].segment = abandoned]
             ELSE ReclaimReturn(t)
  /\ UNCHANGED <<seg, tld, abandoned_count, halt, cfg, ext>>

\* the end of the loop body: reclaimed++ when the segment was kept (st.flag)
ReclaimedOne(t, st) ==
  /\ Commit(t, st)
  /\ loc' = [loc EXCEPT ![t].reclaimed = @ + (IF Run(st) /\ st.flag THEN 1 ELSE 0),
                        ![t].popped = @ + 1,
                        ![t].segment = Null, ![t].next = Null]

\* "got it": atomic_decrement(&abandoned_count) and the adoption of the segment
ReclaimDec(t) ==
  /\ MayStep(t, "rc_dec")
  /\ abandoned_count' = abandoned_count - 1
  /\ ReclaimedOne(t, ReclaimSegment(View(t), t, loc[t].segment))
  /\ pc' = [pc EXCEPT ![t] = "rc_head"]
  /\ UNCHANGED <<abandoned, cfg, ext>>

ThreadCollect(t) ==
  /\ MayStart(t)
  /\ tld[t].cache.first # Null
  /\ Commit(t, _segment_thread_collect(View(t)))
  /\ UNCHANGED <<abandoned, abandoned_count, pc, loc, cfg, ext>>

\* the owner of a page hands out a block of it
PageAllocBlock(t, s, i) ==
  /\ MayStart(t)
  /\ Owns(t, s, i)
  /\ seg[s].pages[i].used < MaxBlocks
  /\ seg' = [seg EXCEPT ![s].pages[i].used = @ + 1]
  /\ UNCHANGED <<tld, abandoned, abandoned_count, pc, loc, halt, cfg, ext>>

\* a block is freed: by the thread that owns the segment and has the page in its heap
\* (the page's used count drops), or, once the page is abandoned, by another thread
\* (thread_freed grows)
PageFreeBlock(t, s, i) ==
  /\ MayStart(t)
  /\ seg[s].mapped
  /\ i < seg[s].capacity
  /\ seg[s].pages[i].segment_in_use
  /\ seg[s].pages[i].used - seg[s].pages[i].thread_freed > 0
  /\ IF seg[s].thread_id = t
     THEN /\ seg[s].pages[i].heap = t
          /\ seg' = [seg EXCEPT ![s].pages[i].used = @ - 1]
     ELSE /\ seg[s].pages[i].heap = Null
          /\ seg' = [seg EXCEPT ![s].pages[i].thread_freed = @ + 1]
  /\ UNCHANGED <<tld, abandoned, abandoned_count, pc, loc, halt, cfg, ext>>

Next ==
  \E t \in Threads :
    \/ \E b \in cfg.sizes, os_ok \in BOOLEAN, ok \in BOOLEAN : PageAlloc(t, b, os_ok, ok)
    \/ \E s \in DOMAIN seg, i \in PageIdx, force \in BOOLEAN : PageFree(t, s, i, force)
    \/ \E s \in DOMAIN seg, i \in PageIdx : PageAbandon(t, s, i)
    \/ AbandonCas(t)
    \/ AbandonInc(t)
    \/ \E try_all \in BOOLEAN : ReclaimStart(t, try_all)
    \/ ReclaimHead(t)
    \/ ReclaimNext(t)
    \/ ReclaimCas(t)
    \/ ReclaimDec(t)
    \/ ThreadCollect(t)
    \/ \E s \in DOMAIN seg, i \in PageIdx : PageAllocBlock(t, s, i)
    \/ \E s \in DOMAIN seg, i \in PageIdx : PageFreeBlock(t, s, i)

\* threads interleave at every access of shared memory
Spec == Init /\ [][Next]_vars

\* calls of different threads do not overlap
SpecSeq == InitSeq /\ [][Next]_vars

\* one thread, and block sizes of every page kind
SpecCache == InitCache /\ [][Next]_vars

\* one thread, and SMALL segments of three pages
SpecPages == InitPages /\ [][Next]_vars

\* calls of _segment_try_reclaim_abandoned on a stack left by exited threads
NextBudget ==
  \E t \in Threads :
    \/ \E try_all \in BOOLEAN : ReclaimStart(t, try_all)
    \/ ReclaimHead(t)
    \/ ReclaimNext(t)
    \/ ReclaimCas(t)
    \/ ReclaimDec(t)

SpecBudget == InitBudget /\ [][NextBudget]_vars

\* a segment of a cache: no owner and no page in use
CachedSegment(size, prev, next) ==
  [Unmapped EXCEPT !.mapped = TRUE, !.segment_size = size, !.os_size = size,
                   !.capacity = 1,
                   !.page_kind = IF size = SEGMENT_SIZE THEN PAGE_LARGE ELSE PAGE_HUGE,
                   !.prev = prev, !.next = next]

\* the sizes of the segments of HUGE pages of 512 KiB and 5 MiB, and of the others
CachedSizes ==
  {segment_size(1, 524288), segment_size(1, 0), segment_size(1, 5242880)}

RECURSIVE SumSizes(_, _)
SumSizes(f, k) == IF k = 0 THEN 0 ELSE f[k] + SumSizes(f, k - 1)

\* a thread whose peak was 8 * MaxCached segments of the largest size has freed its
\* pages: k segments are left in its cache, in the order of their sizes
InitCached ==
  /\ cfg = [overlap |-> FALSE, threads |-> {1}, sizes |-> BlockSizes \cup {4980736},
            pages |-> MaxSmallPages - 1, tracked |-> MaxCached + 1, stats |-> FALSE,
            secure |-> 0, page_reset |-> FALSE]
  /\ \E k \in 1 .. MaxCached : \E f \in [1 .. k -> CachedSizes] :
    /\ \A j \in 1 .. (k - 1) : f[j] <= f[j + 1]
    /\ seg = [s \in 1 .. MaxCached |->
                IF s <= k THEN CachedSegment(f[s], s - 1, IF s < k THEN s + 1 ELSE Null)
                ELSE Unmapped]
    /\ tld = [t \in Threads |->
                IF t = 1
                THEN [EmptyTld EXCEPT !.cache = [first |-> 1, last |-> k],
                                      !.cache_count = k,
                                      !.cache_size = SumSizes(f, k),
                                      !.current_size = SumSizes(f, k),
                                      !.peak_size = SEGMENT_CACHE_FRACTION * MaxCached
                                                      * segment_size(1, 5242880)]
                ELSE EmptyTld]
    /\ abandoned = Null
    /\ abandoned_count = 0
    /\ pc = [t \in Threads |-> "idle"]
    /\ loc = [t \in Threads |-> NoLoc]
    /\ halt = "run"
    /\ InitExt

\* page allocations and frees of a thread that starts with segments in its cache
NextCached ==
  \/ \E b \in cfg.sizes, os_ok \in BOOLEAN, ok \in BOOLEAN : PageAlloc(1, b, os_ok, ok)
  \/ \E s \in DOMAIN seg, i \in PageIdx, force \in BOOLEAN : PageFree(1, s, i, force)
  \/ ThreadCollect(1)

SpecCached == InitCached /\ [][NextCached]_vars

\* a thread has k segments in its cache (up to SEGMENT_CACHE_MAX, the last of them of
\* a HUGE page when h) and owns one more segment whose LARGE page has no live block;
\* its peak was between the least that let the last segment into the cache and more
\* than 8 times the cache
InitFull ==
  /\ cfg = [overlap |-> FALSE, threads |-> {1}, sizes |-> {65536},
            pages |-> MaxSmallPages - 1, tracked |-> SEGMENT_CACHE_MAX + 2,
            stats |-> FALSE, secure |-> 0, page_reset |-> FALSE]
  /\ \E k \in 0 .. SEGMENT_CACHE_MAX, h \in BOOLEAN :
      LET f == [j \in 1 .. k |-> IF h /\ j = k THEN segment_size(1, 5242880)
                                 ELSE SEGMENT_SIZE]
          c == SumSizes(f, k)
          last == IF k = 0 THEN 0 ELSE f[k]
      IN \E peak \in {SEGMENT_CACHE_FRACTION * (c - last) + 1,
                       SEGMENT_CACHE_FRACTION * c,
                       SEGMENT_CACHE_FRACTION * (c + SEGMENT_SIZE)} :
        /\ peak >= c + SEGMENT_SIZE
        /\ seg = [s \in 1 .. (SEGMENT_CACHE_MAX + 1) |->
                    IF s <= k
                    THEN CachedSegment(f[s], s - 1, IF s < k THEN s + 1 ELSE Null)
                    ELSE IF s = SEGMENT_CACHE_MAX + 1
                    THEN [AbandonedLarge(Null, TRUE) EXCEPT
                            !.abandoned = 0, !.thread_id = 1, !.pages[0].heap = 1]
                    ELSE Unmapped]
        /\ tld = [t \in Threads |->
                    IF t = 1
                    THEN [EmptyTld EXCEPT
                            !.cache = [first |-> IF k = 0 THEN Null ELSE 1,
                                       last |-> IF k = 0 THEN Null ELSE k],
                            !.cache_count = k,
                            !.cache_size = c,
                            !.current_size = c + SEGMENT_SIZE,
                            !.peak_size = peak]
                    ELSE EmptyTld]
  /\ abandoned = Null
  /\ abandoned_count = 0
  /\ pc = [t \in Threads |-> "idle"]
  /\ loc = [t \in Threads |-> NoLoc]
  /\ halt = "run"
  /\ InitExt

\* the thread frees the page of its segment (not forced), or collects its cache
NextFull ==
  \/ \E s \in DOMAIN seg, i \in PageIdx : PageFree(1, s, i, FALSE)
  \/ ThreadCollect(1)

SpecFull == InitFull /\ [][NextFull]_vars

\* threads that have exited left NSegs SMALL segments with one live page each on the
\* abandoned stack (segment NSegs on top)
InitAba ==
  /\ cfg = [overlap |-> TRUE, threads |-> Threads, sizes |-> {16},
            pages |-> MaxSmallPages - 1, tracked |-> MaxTracked, stats |-> FALSE,
            secure |-> 0, page_reset |-> FALSE]
  /\ seg = [s \in SegIds |->
              [AbandonedLarge(s - 1, FALSE) EXCEPT !.page_kind = PAGE_SMALL,
                                                   !.capacity = cfg.pages]]
  /\ tld = [t \in Threads |-> EmptyTld]
  /\ abandoned = NSegs
  /\ abandoned_count = NSegs
  /\ pc = [t \in Threads |-> "idle"]
  /\ loc = [t \in Threads |-> NoLoc]
  /\ halt = "run"
  /\ InitExt

\* two threads reclaim, free the blocks, abandon again and allocate SMALL pages; they
\* interleave at every access of shared memory
NextAba ==
  \E t \in Threads :
    \/ PageAlloc(t, 16, TRUE, TRUE)
    \/ \E s \in DOMAIN seg, i \in PageIdx : PageAbandon(t, s, i)
    \/ AbandonCas(t)
    \/ AbandonInc(t)
    \/ ReclaimStart(t, FALSE)
    \/ ReclaimHead(t)
    \/ ReclaimNext(t)
    \/ ReclaimCas(t)
    \/ ReclaimDec(t)
    \/ ThreadCollect(t)
    \/ \E s \in DOMAIN seg, i \in PageIdx : PageFreeBlock(t, s, i)

SpecAba == InitAba /\ [][NextAba]_vars

\* calls that do not overlap, with the `segments` statistic counted
SpecStats == InitStats /\ [][Next]_vars

\* thread 1 obtains pages and exits abandoning them; thread 2 reclaims, frees the
\* blocks and then the pages
NextS3 ==
  \/ \E b \in cfg.sizes, os_ok \in BOOLEAN, ok \in BOOLEAN : PageAlloc(1, b, os_ok, ok)
  \/ \E s \in DOMAIN seg, i \in PageIdx : PageAllocBlock(1, s, i)
  \/ \E s \in DOMAIN seg, i \in PageIdx : PageAbandon(1, s, i)
  \/ AbandonCas(1)
  \/ AbandonInc(1)
  \/ \E try_all \in BOOLEAN : ReclaimStart(2, try_all)
  \/ ReclaimHead(2)
  \/ ReclaimNext(2)
  \/ ReclaimCas(2)
  \/ ReclaimDec(2)
  \/ \E s \in DOMAIN seg, i \in PageIdx : PageFreeBlock(2, s, i)
  \/ \E s \in DOMAIN seg, i \in PageIdx : PageFree(2, s, i, FALSE)

SpecS3 == InitSeq /\ [][NextS3]_vars

(***************************************************************************)
(* Properties                                                              *)
(***************************************************************************)
\* the segment is owned by a thread
ThreadOwned(s) == seg[s].mapped /\ seg[s].thread_id \in Threads

\* the page slots of a segment that are in use
InUseCount(s) ==
  Cardinality({i \in PageIdx : i < seg[s].capacity /\ seg[s].pages[i].segment_in_use})

\* the segment is abandoned: no owner, and all its pages in use are abandoned
IsAbandoned(s) ==
  /\ seg[s].mapped
  /\ seg[s].thread_id = 0
  /\ seg[s].used = seg[s].abandoned
  /\ seg[s].abandoned > 0

\* the segments reached from the head of the abandoned stack
RECURSIVE StackWalk(_, _)
StackWalk(s, fuel) ==
  IF s = Null \/ fuel = 0 THEN {}
  ELSE IF ~seg[s].mapped THEN {s}
  ELSE {s} \cup StackWalk(seg[s].abandoned_next, fuel - 1)

OnStack == StackWalk(abandoned, Cardinality(DOMAIN seg))

\* the segment is held by a call that is pushing it or has just popped it
InFlight(s) ==
  \E t \in Threads : pc[t] \in {"ab_cas", "rc_dec"} /\ loc[t].segment = s

\* C1: for every segment owned by a thread, 0 <= abandoned <= used <= capacity, and
\* the number of page slots with segment_in_use is used, whatever page allocations,
\* frees, abandons and reclaims have run
C1_SegmentCounters ==
  halt = "run" =>
    \A s \in DOMAIN seg :
      ThreadOwned(s) =>
        /\ 0 <= seg[s].abandoned
        /\ seg[s].abandoned <= seg[s].used
        /\ seg[s].used <= seg[s].capacity
        /\ InUseCount(s) = seg[s].used

\* a segment adopted by thread 2 that has one page abandoned again and one page live
C1_Witness ==
  \E s \in DOMAIN seg :
    /\ seg[s].mapped /\ seg[s].thread_id = 2 /\ seg[s].page_kind = PAGE_SMALL
    /\ seg[s].abandoned = 1 /\ seg[s].used = 2
    /\ tld[1].peak_size > 0 /\ tld[2].peak_size > tld[1].peak_size

\* C2: whatever the interleaving of pushes and pops, the segment a pop has taken off
\* the abandoned stack is an abandoned one: it has no owner, is in no cache and is
\* mapped, so that adopting it gives it its only owner
C2_PopsOnlyAbandoned ==
  \A t \in Threads : pc[t] = "rc_dec" => IsAbandoned(loc[t].segment)

\* C3: no abandoned segment is lost (it is on the stack, or in the hands of the call
\* that pushes or has popped it), and every segment reached from the head of the
\* stack is abandoned (thread_id = 0 and used = abandoned > 0)
C3_StackHoldsAbandoned ==
  /\ \A s \in DOMAIN seg : IsAbandoned(s) => s \in OnStack \/ InFlight(s)
  /\ \A s \in OnStack : IsAbandoned(s)

\* C4: a thread's cache holds at most SEGMENT_CACHE_MAX segments, and
\* cache_size * SEGMENT_CACHE_FRACTION <= peak_size
C4_CacheBounds ==
  \A t \in Threads :
    /\ tld[t].cache_count <= SEGMENT_CACHE_MAX
    /\ tld[t].cache_size * SEGMENT_CACHE_FRACTION <= tld[t].peak_size

\* C5: every SMALL segment owned by a thread that has a free page slot
\* (used < capacity) is in the small_free queue of its owner
C5_SmallFreeComplete ==
  halt = "run" =>
    \A s \in DOMAIN seg :
      (ThreadOwned(s) /\ seg[s].page_kind = PAGE_SMALL /\ seg[s].used < seg[s].capacity)
        => s \in QueueMembers(seg, tld[seg[s].thread_id].small_free)

\* what _segment_page_free is to do with the segment once the page is cleared
PageFreePolicy(t, s, i, force) ==
  LET used == seg[s].used - 1
      free == QueueSeq(seg, tld[t].small_free.first, Cardinality(DOMAIN seg))
      free1 == QueueSeq(seg', tld'[t].small_free.first, Cardinality(DOMAIN seg))
      cache1 == QueueMembers(seg', tld'[t].cache)
  IN /\ seg'[s].mapped => /\ seg'[s].pages[i] = [EmptyPage EXCEPT !.segment_idx = i]
                          /\ seg'[s].used = used
     /\ IF used = 0
        THEN /\ pc'[t] = "idle"
             /\ IF seg'[s].mapped THEN ~force /\ s \in cache1 /\ seg'[s].thread_id = 0
                ELSE TRUE
             /\ \A k \in 1 .. Len(free1) : free1[k] # s
        ELSE IF used = seg[s].abandoned
        THEN /\ pc'[t] = "ab_cas" /\ loc'[t].segment = s
             /\ seg'[s].mapped /\ seg'[s].thread_id = 0
             /\ s \notin cache1
             /\ \A k \in 1 .. Len(free1) : free1[k] # s
        ELSE IF used = seg[s].capacity - 1
        THEN /\ pc'[t] = "idle"
             /\ seg'[s].thread_id = t
             /\ free1 = free \o <<s>>
             /\ tld'[t].cache = tld[t].cache
        ELSE /\ pc'[t] = "idle"
             /\ seg'[s].thread_id = t
             /\ tld' = tld
             /\ free1 = free

\* C6: _segment_page_free clears the page and then does exactly one thing: the
\* segment is released (cache or OS) when used = 0; else it is abandoned when
\* used = abandoned; else it is appended to small_free when used = capacity - 1;
\* else the queues stay as they are
C6_PageFreePolicy ==
  [][\A t \in Threads : \A s \in DOMAIN seg : \A i \in PageIdx : \A force \in BOOLEAN :
       (PageFree(t, s, i, force) /\ halt' = "run") => PageFreePolicy(t, s, i, force)]_vars

\* a SMALL segment of three pages is left with its last page only: the page freed
\* second left the queues as they were
C6_Witness ==
  \E s \in DOMAIN seg :
    /\ seg[s].mapped /\ seg[s].thread_id = 1 /\ seg[s].capacity = 3
    /\ ~seg[s].pages[0].segment_in_use /\ ~seg[s].pages[1].segment_in_use
    /\ seg[s].pages[2].segment_in_use
    /\ tld[1].small_free.first = s

\* the OS has no memory for this call of _segment_page_alloc
Oom(t, block_size, os_ok, munmap_ok) ==
  _segment_page_alloc(View(t), t, block_size, os_ok, munmap_ok).oom

\* C7: when the OS cannot provide memory during _segment_page_alloc, the call
\* returns null and the SegmentsTld is as before: small_free, cache, cache_count,
\* cache_size, current_size and peak_size
C7_OomLeavesTld ==
  [][\A t \in Threads : \A b \in cfg.sizes : \A os_ok \in BOOLEAN : \A ok \in BOOLEAN :
       (PageAlloc(t, b, os_ok, ok) /\ Oom(t, b, os_ok, ok))
         => tld'[t] = tld[t] /\ seg' = seg]_vars

\* the cache has given up a segment it could not shrink
ShrinkGaveUp(t) ==
  \E c \in QueueMembers(seg, tld[t].cache) :
    /\ ~seg'[c].mapped
    /\ tld'[t].cache_count = tld[t].cache_count - 1
    /\ tld'[t].cache_size = tld[t].cache_size - seg[c].segment_size
    /\ tld'[t].current_size = tld[t].current_size - seg[c].segment_size
    /\ QueueMembers(seg', tld'[t].cache) = QueueMembers(seg, tld[t].cache) \ {c}

\* C7 (amended): when the OS cannot provide memory during _segment_page_alloc, the
\* call returns null with small_free and peak_size as before; the rest of the
\* SegmentsTld is as before too, unless the cache held a segment that had to be
\* shrunk and could not be: that segment is out of the cache and back at the OS
C7_OomLeavesTldOrShrinks ==
  [][\A t \in Threads : \A b \in cfg.sizes : \A os_ok \in BOOLEAN : \A ok \in BOOLEAN :
       (PageAlloc(t, b, os_ok, ok) /\ Oom(t, b, os_ok, ok))
         => /\ _segment_page_alloc(View(t), t, b, os_ok, ok).ret = Null
            /\ halt' = "run"
            /\ tld'[t].small_free = tld[t].small_free
            /\ tld'[t].peak_size = tld[t].peak_size
            /\ (tld'[t] = tld[t] /\ seg' = seg) \/ ShrinkGaveUp(t)]_vars

\* the OS has no memory for a SMALL page, and the cached huge segment cannot be shrunk
C7_Witness ==
  /\ tld[1].cache_count = 1
  /\ seg[tld[1].cache.first].segment_size > SEGMENT_SIZE
  /\ Oom(1, 16, FALSE, FALSE)
  /\ _segment_page_alloc(View(1), 1, 16, FALSE, FALSE).tld # tld[1]

\* what the adoption of the abandoned segment s by thread t leaves
Adopted(t, s) ==
  IF \E i \in PageIdx : seg[s].pages[i].segment_in_use /\ ~page_all_free(seg[s].pages[i])
  THEN /\ seg'[s].mapped
       /\ seg'[s].thread_id = t
       /\ seg'[s].abandoned = 0
       /\ seg'[s].abandoned_next = Null
       /\ \A i \in PageIdx :
            seg[s].pages[i].segment_in_use =>
              IF page_all_free(seg[s].pages[i])
              THEN seg'[s].pages[i] = [EmptyPage EXCEPT !.segment_idx = i]
              ELSE seg'[s].pages[i] = [seg[s].pages[i] EXCEPT !.heap = t]
       /\ seg'[s].used = Cardinality({i \in PageIdx : seg'[s].pages[i].segment_in_use})
       /\ seg'[s].used > 0
  ELSE \/ ~seg'[s].mapped
       \/ /\ seg'[s].thread_id = 0
          /\ seg'[s].used = 0
          /\ seg'[s].abandoned = 0
          /\ seg'[s].abandoned_next = Null
          /\ s \in QueueMembers(seg', tld'[t].cache)

\* C8: once thread T has reclaimed an abandoned segment, thread_id = T,
\* abandoned = 0 and abandoned_next = null; every page slot that was in use is
\* cleared (all its blocks were freed) or in T's heap; and a segment left with
\* used = 0 is released by segment_free and not owned
C8_Reclaimed ==
  [][\A t \in Threads :
       (ReclaimDec(t) /\ IsAbandoned(loc[t].segment)) =>
          halt' = "run" /\ Adopted(t, loc[t].segment)]_vars

\* a reclaim has adopted a SMALL segment, clearing one page and keeping the other
C8_Witness ==
  \E t \in Threads : \E s \in DOMAIN seg :
    /\ pc[t] = "rc_head" /\ loc[t].reclaimed = 1
    /\ seg[s].thread_id = t /\ seg[s].page_kind = PAGE_SMALL /\ seg[s].used = 1
    /\ seg[s].pages[1].heap = t /\ ~seg[s].pages[0].segment_in_use
    /\ s \notin QueueMembers(seg, tld[t].small_free)

\* the larger of two numbers
Max(a, b) == IF a > b THEN a ELSE b

\* C9: a call of _segment_try_reclaim_abandoned with try_all = false keeps at most
\* max(abandoned_count / 8, 8) segments, abandoned_count being read at entry; a call
\* with try_all = true that no push overlaps takes every segment off the stack
C9_ReclaimBudget ==
  [][\A t \in Threads :
       /\ ReclaimStart(t, FALSE) =>
            loc'[t].atmost = Max(abandoned_count \div SEGMENT_CACHE_FRACTION, 8)
       /\ (pc[t] # "idle" /\ ~loc[t].try_all) => loc'[t].reclaimed <= loc[t].atmost
       /\ (pc[t] # "idle" /\ pc'[t] = "idle" /\ loc[t].try_all) => abandoned' = Null]_vars

\* the budget has stopped a call: nine segments kept of the 73 on the stack
C9_Witness ==
  \E t \in Threads :
    /\ pc[t] = "rc_head" /\ ~loc[t].try_all
    /\ loc[t].atmost = 9 /\ loc[t].reclaimed = 9
    /\ abandoned # Null

\* a call of _segment_try_reclaim_abandoned of thread t returns
ReclaimReturns(t) == pc[t] \in {"rc_head", "rc_cas"} /\ pc'[t] = "idle"

\* C10: _segment_try_reclaim_abandoned returns true if and only if it has popped at
\* least one segment from the abandoned stack
C10_TrueIffPopped ==
  [][\A t \in Threads : ReclaimReturns(t) => (ReclaimResult(t) <=> loc[t].popped > 0)]_vars

\* C10 (amended): _segment_try_reclaim_abandoned counts the popped segments that stay
\* with the caller (those with a page that still has live blocks) and returns true
\* if and only if there is one; a popped segment whose blocks were all freed is
\* released and not counted, so that the call can return false having popped
C10_TrueIffKept ==
  [][\A t \in Threads :
       /\ (ReclaimDec(t) /\ halt' = "run") =>
            /\ loc'[t].popped = loc[t].popped + 1
            /\ LET s == loc[t].segment
                   kept == seg'[s].mapped /\ seg'[s].thread_id = t /\ seg'[s].used > 0
               IN loc'[t].reclaimed = loc[t].reclaimed + (IF kept THEN 1 ELSE 0)
       /\ ReclaimReturns(t) =>
            /\ ReclaimResult(t) <=> loc[t].reclaimed > 0
            /\ ReclaimResult(t) => loc[t].popped > 0
            /\ ~ReclaimResult(t) => abandoned = Null]_vars

\* a call is about to return false although it has popped a segment
C10_Witness ==
  \E t \in Threads :
    /\ pc[t] = "rc_head" /\ loc[t].popped > 0 /\ loc[t].reclaimed = 0
    /\ abandoned = Null

\* thread 1 abandons the last page of its segment that was not abandoned, a block
\* of it being live: the segment has no owner and goes on the stack
AbandonedToStack ==
  /\ \A s \in DOMAIN seg : \A i \in PageIdx :
       (PageAbandon(1, s, i) /\ seg[s].used = seg[s].abandoned + 1) =>
          /\ seg'[s].thread_id = 0
          /\ pc'[1] = "ab_cas" /\ loc'[1].segment = s
  /\ (AbandonCas(1) /\ pc'[1] = "ab_inc") =>
       /\ abandoned' = loc[1].segment
       /\ seg'[loc[1].segment].thread_id = 0

\* thread 2 adopts the segment: the pages with live blocks are in its heap, and the
\* call returns true
ReclaimedToHeap ==
  /\ ReclaimDec(2) =>
       \A i \in PageIdx :
         (seg[loc[2].segment].pages[i].segment_in_use
            /\ ~page_all_free(seg[loc[2].segment].pages[i])) =>
           /\ seg'[loc[2].segment].thread_id = 2
           /\ seg'[loc[2].segment].pages[i].heap = 2
           /\ loc'[2].reclaimed = loc[2].reclaimed + 1
  /\ (ReclaimReturns(2) /\ loc[2].reclaimed > 0) => ReclaimResult(2)

\* segment s is in the cache of thread t after the step, and not on the stack
CachedAfter(t, s) ==
  /\ seg'[s].mapped
  /\ seg'[s].thread_id = 0
  /\ s \in QueueMembers(seg', tld'[t].cache)
  /\ s \notin QueueMembers(seg', tld'[t].small_free)
  /\ abandoned' = abandoned /\ abandoned' # s
  /\ pc'[t] = "idle"

\* the cache of thread t takes one more segment: segment_cache_full returns false
CacheHasRoom(t) ==
  /\ tld[t].cache_count < SEGMENT_CACHE_MAX
  /\ tld[t].cache_size * SEGMENT_CACHE_FRACTION < tld[t].peak_size

\* C11: thread A obtains a page and exits abandoning it while a block is live: the
\* segment is on the abandoned stack with thread_id = 0; thread B reclaims: the page
\* is in B's heap and the call returns true; B frees the page with force = false:
\* the segment is in B's cache, not released to the OS and not on the stack
C11_AbandonReclaimFree ==
  [][/\ AbandonedToStack
     /\ ReclaimedToHeap
     /\ \A s \in DOMAIN seg : \A i \in PageIdx :
          (PageFree(2, s, i, FALSE) /\ seg[s].used = 1) => CachedAfter(2, s)]_vars

\* C11 (amended): as C11, but the segment ends in B's cache only if the cache has
\* room for it (cache_count < 32 and cache_size * 8 < peak_size, as for a thread B
\* that has cached nothing); if not, segment_cache_full makes room and the
\* segment is released to the OS
C11_AbandonReclaimFreeRoom ==
  [][/\ AbandonedToStack
     /\ ReclaimedToHeap
     /\ \A s \in DOMAIN seg : \A i \in PageIdx :
          (PageFree(2, s, i, FALSE) /\ seg[s].used = 1) =>
             IF CacheHasRoom(2) THEN CachedAfter(2, s)
             ELSE ~seg'[s].mapped /\ abandoned' = abandoned /\ pc'[2] = "idle"]_vars

\* the segment thread 1 abandoned is in the cache of thread 2, which has adopted it
\* and freed its page
C11_Witness ==
  \E s \in DOMAIN seg :
    /\ seg[s].mapped /\ seg[s].thread_id = 0 /\ seg[s].used = 0
    /\ tld[2].cache.first = s /\ tld[2].cache_count = 1
    /\ tld[1].peak_size > 0 /\ tld[1].cache.first = Null
    /\ abandoned = Null /\ abandoned_count = 0

\* every page that was allocated has been freed, and no call is under way
AllPagesFreed ==
  /\ halt = "run"
  /\ \A t \in Threads : pc[t] = "idle"
  /\ \A s \in DOMAIN seg : \A i \in PageIdx : ~seg[s].pages[i].segment_in_use

\* the segments that are in the cache of some thread
CachedSegments ==
  {s \in DOMAIN seg : \E t \in Threads : s \in QueueMembers(seg, tld[t].cache)}

\* the sum over the threads in T of a count of their `segments` statistic
RECURSIVE MergedStat(_, _)
MergedStat(T, count) ==
  IF T = {} THEN 0
  ELSE LET t == CHOOSE u \in T : TRUE
       IN tld[t].segments[count] + MergedStat(T \ {t}, count)

\* every segment is in a cache or released to the OS
SegmentsReleased ==
  /\ \A s \in DOMAIN seg : seg[s].mapped => s \in CachedSegments
  /\ \A t \in Threads : tld[t].small_free.first = Null
  /\ abandoned = Null

\* C12: once every allocated page has been freed, by whatever threads and with
\* whatever abandonment and reclaim, the merged `segments` statistics have
\* allocated = freed (the segments that stay in a cache being the only ones not yet
\* counted as freed), and every segment is in a cache or released to the OS: none is
\* in a small_free queue or on the abandoned stack
C12_RoundTrip ==
  AllPagesFreed =>
    /\ MergedStat(Threads, "allocated") =
         MergedStat(Threads, "freed") + Cardinality(CachedSegments)
    /\ SegmentsReleased

\* what segment_free(s, force, tld) of thread t leaves
SegmentFreed(t, s, force) ==
  /\ halt' = "run"
  /\ QueueMembers(seg', tld'[t].small_free) = QueueMembers(seg, tld[t].small_free) \ {s}
  /\ (seg'[s].mapped /\ seg'[s].thread_id = 0 /\ s \in QueueMembers(seg', tld'[t].cache))
       # (~seg'[s].mapped /\ s \notin QueueMembers(seg', tld'[t].cache))
  /\ force => ~seg'[s].mapped

\* every page in use of segment s has all its blocks freed
AllBlocksFreed(s) ==
  \A i \in PageIdx : seg[s].pages[i].segment_in_use => page_all_free(seg[s].pages[i])

\* C13: segment_free(segment, force, tld) takes the segment out of tld.small_free
\* if it is there, sets thread_id to 0, and then the segment is either in the
\* thread's cache or released to the OS, exactly one of the two; with force = true
\* it is released to the OS and never cached
C13_SegmentFree ==
  [][\A t \in Threads :
       /\ \A s \in DOMAIN seg : \A i \in PageIdx : \A force \in BOOLEAN :
            (PageFree(t, s, i, force) /\ seg[s].used = 1) => SegmentFreed(t, s, force)
       /\ (ReclaimDec(t) /\ IsAbandoned(loc[t].segment) /\ AllBlocksFreed(loc[t].segment))
            => SegmentFreed(t, loc[t].segment, FALSE)]_vars

\* a SMALL segment that was in small_free is in the cache, and the other segment,
\* freed while the cache was full, is back at the OS
C13_Witness ==
  \E s \in DOMAIN seg :
    /\ seg[s].mapped /\ seg[s].page_kind = PAGE_SMALL /\ seg[s].thread_id = 0
    /\ tld[1].cache.first = s /\ tld[1].cache_count = 1
    /\ tld[1].small_free.first = Null
    /\ tld[1].peak_size = 2 * SEGMENT_SIZE /\ tld[1].current_size = SEGMENT_SIZE
    /\ \A u \in DOMAIN seg : u # s => ~seg[u].mapped

\* the bytes of the segments of a queue
RECURSIVE QueueBytes(_, _)
QueueBytes(list, fuel) ==
  IF list = Null \/ fuel = 0 THEN 0
  ELSE seg[list].segment_size + QueueBytes(seg[list].next, fuel - 1)

\* C14: _segment_thread_collect(tld) terminates and leaves the cache empty: the
\* queue is empty, cache_count = 0 and cache_size = 0, and every segment that was
\* cached has been released to the OS exactly once, whatever the sizes are
C14_ThreadCollect ==
  [][\A t \in Threads :
       ThreadCollect(t) =>
         /\ halt' = "run"
         /\ tld'[t].cache = EmptyQueue
         /\ tld'[t].cache_count = 0
         /\ tld'[t].cache_size = 0
         /\ tld'[t].current_size =
              tld[t].current_size - QueueBytes(tld[t].cache.first, Cardinality(DOMAIN seg))
         /\ tld'[t].small_free = tld[t].small_free
         /\ \A s \in DOMAIN seg :
              IF s \in QueueMembers(seg, tld[t].cache)
              THEN ~seg'[s].mapped ELSE seg'[s] = seg[s]]_vars

\* the three segments that were cached, of three sizes, are back at the OS
C14_Witness ==
  /\ \A s \in DOMAIN seg : ~seg[s].mapped
  /\ tld[1].cache = EmptyQueue /\ tld[1].cache_count = 0 /\ tld[1].cache_size = 0
  /\ tld[1].peak_size > 0
  /\ tld[1].current_size = 0

\* the segment sizes that the callers of segment_cache_find ask for: 0
\* (_segment_thread_collect), and the size of the segment of a page (segment_alloc)
RequiredSizes ==
  {0} \cup {segment_size(1, IF b < LARGE_SIZE_MAX - SizeofSegment THEN 0 ELSE b) :
              b \in cfg.sizes}

\* the position in the sequence q of the first segment of at least `required` bytes,
\* from position k on (Len(q) + 1: there is none)
RECURSIVE FirstFit(_, _, _)
FirstFit(q, required, k) ==
  IF k > Len(q) \/ seg[q[k]].segment_size >= required THEN k
  ELSE FirstFit(q, required, k + 1)

\* the sequence q without its k-th element
Without(q, k) == SubSeq(q, 1, k - 1) \o SubSeq(q, k + 1, Len(q))

\* segment_cache_find(tld, required) of thread t is first-fit: the result r has the
\* first cached segment of at least `required` bytes out of the cache, and returns
\* it or null
FirstFitFound(t, required, r) ==
  LET q == QueueSeq(seg, tld[t].cache.first, Cardinality(DOMAIN seg))
      k == FirstFit(q, required, 1)
  IN IF k > Len(q)
     THEN r.ret = Null /\ r.tld = tld[t] /\ r.seg = seg
     ELSE /\ r.halt = "run"
          /\ QueueSeq(r.seg, r.tld.cache.first, Cardinality(DOMAIN seg)) = Without(q, k)
          /\ r.tld.cache_count = tld[t].cache_count - 1
          /\ r.tld.cache_size = tld[t].cache_size - seg[q[k]].segment_size
          /\ r.ret \in {Null, q[k]}
          /\ r.ret # Null => r.seg[r.ret].mapped

\* the size of the segment returned for `required` > 0 bytes
FitSize(required, size) ==
  IF required = SEGMENT_SIZE THEN size = SEGMENT_SIZE
  ELSE size = required \/ size - (size \div 4) <= required

\* the size of the segment that the result r returns (0: none is returned)
ReturnedSize(r) == IF r.ret = Null THEN 0 ELSE r.seg[r.ret].segment_size

\* C15: segment_cache_find(tld, required) is first-fit over the size-ordered cache:
\* null if no cached segment has segment_size >= required, otherwise the first such
\* segment is taken out of the cache; with required = SEGMENT_SIZE the size of the
\* segment returned is exactly SEGMENT_SIZE, and with any other required it is
\* exactly required or wastes at most 25% (size - size/4 <= required)
C15_FirstFit ==
  \A required \in RequiredSizes : \A munmap_ok \in BOOLEAN :
    /\ FirstFitFound(1, required, segment_cache_find(View(1), required, munmap_ok))
    /\ segment_cache_find(View(1), required, munmap_ok).ret # Null =>
         FitSize(required,
                 ReturnedSize(segment_cache_find(View(1), required, munmap_ok)))

\* C15 (amended): as C15 for required > 0; with required = 0, which is what
\* _segment_thread_collect asks for, the first segment of the cache is returned as
\* it is, whatever its size
C15_FirstFitOrAny ==
  \A required \in RequiredSizes : \A munmap_ok \in BOOLEAN :
    /\ FirstFitFound(1, required, segment_cache_find(View(1), required, munmap_ok))
    /\ segment_cache_find(View(1), required, munmap_ok).ret # Null =>
         IF required = 0
         THEN /\ segment_cache_find(View(1), 0, munmap_ok).ret = tld[1].cache.first
              /\ ReturnedSize(segment_cache_find(View(1), 0, munmap_ok))
                   = seg[tld[1].cache.first].segment_size
         ELSE FitSize(required,
                      ReturnedSize(segment_cache_find(View(1), required, munmap_ok)))

\* the first segment of the cache is too small for 5 MiB and the second one, of
\* 5.25 MiB, is returned as it is: it wastes less than 25%
C15_Witness ==
  /\ tld[1].cache_count = 2
  /\ seg[tld[1].cache.first].segment_size = SEGMENT_SIZE
  /\ seg[tld[1].cache.last].segment_size = segment_size(1, 5242880)
  /\ segment_cache_find(View(1), segment_size(1, 4980736), TRUE).ret = tld[1].cache.last
  /\ segment_cache_find(View(1), segment_size(1, 4980736), TRUE).tld.cache_count = 1

\* the candidate of `size` bytes is neither an exact match for `required` nor
\* within 25% of it: it has to be shrunk
HasToShrink(size, required) ==
  /\ required # 0
  /\ size > required
  /\ ~(required # SEGMENT_SIZE /\ size - (size \div 4) <= required)

\* what is left when the candidate c of the cache of thread t could not be shrunk
GaveUp(t, c, r) ==
  /\ r.halt = "run"
  /\ r.ret = Null
  /\ ~r.seg[c].mapped
  /\ r.tld.cache_count = tld[t].cache_count - 1
  /\ r.tld.cache_size = tld[t].cache_size - seg[c].segment_size
  /\ r.tld.current_size = tld[t].current_size - seg[c].segment_size
  /\ r.tld.peak_size = tld[t].peak_size
  /\ r.tld.small_free = tld[t].small_free
  /\ QueueSeq(r.seg, r.tld.cache.first, Cardinality(DOMAIN seg))
       = SelectSeq(QueueSeq(seg, tld[t].cache.first, Cardinality(DOMAIN seg)),
                   LAMBDA s : s # c)
  /\ \A s \in DOMAIN seg \ {c} :
       [r.seg[s] EXCEPT !.next = seg[s].next, !.prev = seg[s].prev] = seg[s]

\* the first segment of the cache of thread t of at least `required` bytes (Null:
\* there is none)
Candidate(t, required) ==
  LET q == QueueSeq(seg, tld[t].cache.first, Cardinality(DOMAIN seg))
      k == FirstFit(q, required, 1)
  IN IF k > Len(q) THEN Null ELSE q[k]

\* C16: when the first-fit candidate of segment_cache_find has to be shrunk and
\* _os_shrink fails, the candidate is out of the cache (cache_count and cache_size
\* reduced) and released to the OS (current_size reduced by its full size), null is
\* returned, and no other cached segment is removed or changed
C16_ShrinkFails ==
  \A required \in RequiredSizes :
    (/\ Candidate(1, required) # Null
     /\ HasToShrink(seg[Candidate(1, required)].segment_size, required))
      => GaveUp(1, Candidate(1, required), segment_cache_find(View(1), required, FALSE))

\* a cache of 4 MiB and 5.25 MiB is asked for 768 KiB and munmap fails: the segment
\* of 4 MiB is given up, and the other one stays
C16_Witness ==
  /\ tld[1].cache_count = 2
  /\ seg[tld[1].cache.first].segment_size = SEGMENT_SIZE
  /\ seg[tld[1].cache.last].segment_size = segment_size(1, 5242880)
  /\ segment_cache_find(View(1), segment_size(1, 524288), FALSE).ret = Null
  /\ segment_cache_find(View(1), segment_size(1, 524288), FALSE).tld.cache.first
       = tld[1].cache.last
  /\ ~segment_cache_find(View(1), segment_size(1, 524288), FALSE).seg[tld[1].cache.first].mapped

\* the `required` that the page allocation of a block of block_size bytes passes to
\* segment_alloc: 0 for SMALL and LARGE pages, the block size for HUGE ones
RequiredFor(block_size) ==
  IF block_size < LARGE_SIZE_MAX - SizeofSegment THEN 0 ELSE block_size

\* the capacity of the segment of a page for blocks of block_size bytes
CapacityFor(block_size) ==
  IF block_size < SMALL_PAGE_SIZE \div 8 THEN SegmentCapacity(PAGE_SMALL) ELSE 1

\* align_up(required + info_size + 2 * guard_size, PAGE_HUGE_ALIGN)
HugeAligned(capacity, required) ==
  _align_up(required + segment_info_size(capacity)
              + 2 * (IF option_secure = 0 THEN 0 ELSE OsPageSize), PAGE_HUGE_ALIGN)

\* C17: segment_size(capacity, required) is max(SEGMENT_SIZE, align_up(required +
\* info_size + 2 * guard_size, PAGE_HUGE_ALIGN)) for every required (0 for SMALL and
\* LARGE segments, the block size for HUGE); the size of a segment is never smaller
\* than SEGMENT_SIZE
C17_SegmentSize ==
  /\ \A b \in cfg.sizes :
       segment_size(CapacityFor(b), RequiredFor(b))
         = Max(SEGMENT_SIZE, HugeAligned(CapacityFor(b), RequiredFor(b)))
  /\ \A s \in DOMAIN seg : seg[s].mapped => seg[s].segment_size >= SEGMENT_SIZE

\* C17 (amended): segment_size(capacity, required) is SEGMENT_SIZE for required = 0
\* (SMALL and LARGE segments) and align_up(required + info_size + 2 * guard_size,
\* PAGE_HUGE_ALIGN) for required > 0, with no floor at SEGMENT_SIZE: the segment of
\* a HUGE page can be smaller than SEGMENT_SIZE. The size of a segment is a positive
\* multiple of PAGE_HUGE_ALIGN, and SEGMENT_SIZE for SMALL and LARGE segments
C17_SegmentSizeNoFloor ==
  /\ \A b \in cfg.sizes :
       segment_size(CapacityFor(b), RequiredFor(b))
         = IF RequiredFor(b) = 0 THEN SEGMENT_SIZE
           ELSE HugeAligned(CapacityFor(b), RequiredFor(b))
  /\ \A s \in DOMAIN seg :
       seg[s].mapped =>
         /\ seg[s].segment_size > 0
         /\ seg[s].segment_size % PAGE_HUGE_ALIGN = 0
         /\ seg[s].page_kind # PAGE_HUGE => seg[s].segment_size = SEGMENT_SIZE

\* the segment of a HUGE page for a block of 512 KiB: 768 KiB
C17_Witness ==
  \E s \in DOMAIN seg :
    /\ seg[s].mapped /\ seg[s].thread_id = 1 /\ seg[s].page_kind = PAGE_HUGE
    /\ seg[s].pages[0].segment_in_use
    /\ seg[s].segment_size = segment_size(1, 524288)
    /\ seg[s].segment_size = 3 * PAGE_HUGE_ALIGN
    /\ seg[s].segment_size < SEGMENT_SIZE

\* segment_info_size of a segment: the header with its pages, and the guard page
PreSize(capacity) ==
  segment_info_size(capacity) + (IF option_secure = 0 THEN 0 ELSE OsPageSize)

\* the result r of segment_huge_page_alloc(size) of thread t, when it returns a page
HugeSegment(t, r, size) ==
  /\ r.halt = "run"
  /\ r.idx = 0
  /\ r.seg[r.ret].mapped
  /\ r.seg[r.ret].thread_id = t
  /\ r.seg[r.ret].page_kind = PAGE_HUGE
  /\ r.seg[r.ret].capacity = 1
  /\ r.seg[r.ret].used = 1
  /\ r.seg[r.ret].abandoned = 0
  /\ r.seg[r.ret].pages[0].segment_in_use
  /\ r.seg[r.ret].segment_size = HugeAligned(1, size)
  /\ r.seg[r.ret].segment_size - PreSize(1) >= size
  /\ r.ret \notin QueueMembers(r.seg, r.tld.cache)
  /\ r.ret \notin QueueMembers(r.seg, r.tld.small_free)
  /\ seg[r.ret].mapped => r.ret \in QueueMembers(seg, tld[t].cache)

PageKindFor(block_size) ==
  IF block_size < SMALL_PAGE_SIZE \div 8 THEN PAGE_SMALL
  ELSE IF block_size < LARGE_SIZE_MAX - SizeofSegment THEN PAGE_LARGE
  ELSE PAGE_HUGE

\* segment_is_valid of the segment s of thread t
SegmentIsValid(s, t) ==
  /\ s.mapped
  /\ s.used <= s.capacity
  /\ s.abandoned <= s.used
  /\ Cardinality({i \in PageIdx : i < s.capacity /\ ~s.pages[i].segment_in_use}) + s.used
       = s.capacity
  /\ \A i \in PageIdx : i >= s.capacity => ~s.pages[i].segment_in_use
  /\ s.thread_id = t

\* the result r of _segment_page_alloc(block_size) of thread t, when it returns a page
PageAllocatedAs(t, r, block_size) ==
  /\ r.halt = "run"
  /\ r.seg[r.ret].page_kind = PageKindFor(block_size)
  /\ r.idx < r.seg[r.ret].capacity
  /\ r.seg[r.ret].pages[r.idx].segment_in_use
  /\ SegmentIsValid(r.seg[r.ret], t)
  /\ IF PageKindFor(block_size) = PAGE_SMALL
     THEN \/ /\ seg[r.ret].mapped /\ seg[r.ret].thread_id = t
             /\ seg[r.ret].page_kind = PAGE_SMALL
             /\ ~seg[r.ret].pages[r.idx].segment_in_use
             /\ r.seg[r.ret].used = seg[r.ret].used + 1
          \/ /\ seg[r.ret].mapped => r.ret \in QueueMembers(seg, tld[t].cache)
             /\ r.seg[r.ret].used = 1
     ELSE /\ seg[r.ret].mapped => r.ret \in QueueMembers(seg, tld[t].cache)
          /\ r.seg[r.ret].capacity = 1 /\ r.seg[r.ret].used = 1 /\ r.idx = 0

\* C19: _segment_page_alloc(block_size) chooses the page kind from block_size alone:
\* a page of a SMALL segment for block_size < SMALL_PAGE_SIZE / 8, else the single
\* page of a new LARGE segment for block_size < LARGE_SIZE_MAX - sizeof(Segment),
\* else the single page of a new HUGE segment; a page returned has segment_in_use
\* set, in a segment that passes segment_is_valid
C19_PageKind ==
  \A t \in cfg.threads : \A b \in cfg.sizes : \A os_ok \in BOOLEAN : \A ok \in BOOLEAN :
    (MayStart(t) /\ _segment_page_alloc(View(t), t, b, os_ok, ok).ret # Null)
      => PageAllocatedAs(t, _segment_page_alloc(View(t), t, b, os_ok, ok), b)

\* a thread has a page of a SMALL segment and the page of a HUGE segment, and its
\* next small page comes from the SMALL segment
C19_Witness ==
  \E s \in DOMAIN seg : \E u \in DOMAIN seg :
    /\ seg[s].mapped /\ seg[s].thread_id = 1 /\ seg[s].page_kind = PAGE_SMALL
    /\ seg[s].used = 1 /\ seg[s].pages[0].heap = 1
    /\ seg[u].mapped /\ seg[u].thread_id = 1 /\ seg[u].page_kind = PAGE_HUGE
    /\ seg[u].used = 1 /\ seg[u].pages[0].heap = 1
    /\ MayStart(1) /\ _segment_page_alloc(View(1), 1, 16, TRUE, TRUE).ret = s
    /\ _segment_page_alloc(View(1), 1, 16, TRUE, TRUE).idx = 1

(***************************************************************************)
(* Pointer recovery                                                        *)
(***************************************************************************)
\* where the mapping of segment s may lie: the mappings do not overlap
MmapRegion(s) == s * 3 * SEGMENT_SIZE

\* what mmap returns for segment s, with the hint and for the over-allocation: an
\* address that is a multiple of SEGMENT_SIZE, or multiples of the OS page size only
MmapResults(s) ==
  {<<MmapRegion(s), MmapRegion(s)>>,
   <<MmapRegion(s) + OsPageSize, MmapRegion(s) + 3 * OsPageSize>>}

\* one thread, block sizes of every page kind, and the addresses that mmap returns
InitPtr ==
  \E m \in [SegIds -> UNION {MmapResults(s) : s \in SegIds}] :
    /\ \A s \in SegIds : m[s] \in MmapResults(s)
    /\ InitWith([overlap |-> FALSE, threads |-> {1}, sizes |-> BlockSizes,
                 pages |-> MaxSmallPages, tracked |-> MaxTracked, stats |-> FALSE, secure |-> 0, page_reset |-> FALSE,
                 mmap |-> m])

\* page allocations and frees of a thread
NextPtr ==
  \/ \E b \in cfg.sizes, os_ok \in BOOLEAN, ok \in BOOLEAN : PageAlloc(1, b, os_ok, ok)
  \/ \E s \in DOMAIN seg, i \in PageIdx, force \in BOOLEAN : PageFree(1, s, i, force)

SpecPtr == InitPtr /\ [][NextPtr]_vars

\* the address of segment s: what segment_alloc got from _os_alloc_aligned
SegmentBase(s) == os_mem_alloc_aligned(cfg.mmap[s][1], cfg.mmap[s][2], SEGMENT_SIZE)

\* block sizes of SMALL pages (0: a page that has none yet)
PageBlockSizes == {0, 16, 48, 1000}

\* addresses of a page's memory: the first ones, the middle and the last one
PageAddresses(a) ==
  {a.p, a.p + 1, a.p + MAX_ALIGN_SIZE, a.p + (a.psize \div 2), a.p + a.psize - 1}

\* ptr_segment and segment_page_of recover the segment and the page from p
Recovered(segment, s, i, p) ==
  /\ ptr_segment(p) = segment
  /\ segment_page_of(segment, s, p) = i

\* the addresses of page i of the segment s at the address segment are recovered
\* (of a HUGE segment: the start of the page)
PageRecovered(segment, s, i) ==
  \A b \in PageBlockSizes :
    /\ segment_page_start(segment, s, i, b).psize > 0
    /\ Recovered(segment, s, i, segment_page_start(segment, s, i, b).p)
    /\ s.page_kind # PAGE_HUGE =>
         \A p \in PageAddresses(segment_page_start(segment, s, i, b)) :
           Recovered(segment, s, i, p)

\* the segment s with as many pages as SEGMENT_SIZE has room for
FullSegment(s) ==
  [s EXCEPT !.capacity = IF s.page_kind = PAGE_SMALL THEN SMALL_PAGES_PER_SEGMENT
                         ELSE s.capacity]

\* C20: for every segment s and page slot i < s.capacity, every address p of the
\* page's memory [segment_page_start(s, page_i), segment_page_start(s, page_i) +
\* page_size) has ptr_segment(p) = s and segment_page_of(s, p) = page i, in SMALL
\* and LARGE segments, and in a HUGE segment the start of the page has; the address
\* of every segment is a multiple of SEGMENT_SIZE
C20_PointerRecovery ==
  \A s \in DOMAIN seg :
    seg[s].mapped =>
      /\ SegmentBase(s) % SEGMENT_SIZE = 0
      /\ \A i \in 0 .. (seg[s].capacity - 1) :
           PageRecovered(SegmentBase(s), seg[s], i)
      /\ \A i \in 0 .. (FullSegment(seg[s]).capacity - 1) :
           PageRecovered(SegmentBase(s), FullSegment(seg[s]), i)

\* a thread has the second page of a SMALL segment, whose address is not the one
\* mmap returned first, and a HUGE page whose last address is not recovered
C20_Witness ==
  \E s \in DOMAIN seg : \E u \in DOMAIN seg :
    /\ seg[s].mapped /\ seg[s].page_kind = PAGE_SMALL
    /\ seg[s].pages[1].segment_in_use /\ seg[s].pages[1].heap = 1
    /\ cfg.mmap[s][1] # SegmentBase(s)
    /\ segment_page_start(SegmentBase(s), seg[s], 1, 1000).p = SegmentBase(s) + SMALL_PAGE_SIZE
    /\ segment_page_start(SegmentBase(s), seg[s], 0, 1000).p % 1000 = 0
    /\ segment_page_start(SegmentBase(s), seg[s], 0, 1000).p
         > SegmentBase(s) + segment_info_size(seg[s].capacity)
    /\ seg[u].mapped /\ seg[u].page_kind = PAGE_HUGE /\ seg[u].pages[0].heap = 1
    /\ seg[u].segment_size > SEGMENT_SIZE
    /\ ptr_segment(segment_page_start(SegmentBase(u), seg[u], 0, 0).p
                     + segment_page_start(SegmentBase(u), seg[u], 0, 0).psize - 1)
         # SegmentBase(u)

(***************************************************************************)
(* Aligned allocation from the OS (src/src/os.rs)                          *)
(***************************************************************************)
\* align & (align - 1) == 0
IsPow2(align) == align = 0 \/ \E k \in 0 .. 30 : align = 2 ^ k

\* munmap(addr, size): what is left of the mapped ranges
munmap(maps, addr, size) ==
  {j \in UNION {{<<i[1], IF i[2] < addr THEN i[2] ELSE addr>>,
                 <<IF i[1] > addr + size THEN i[1] ELSE addr + size, i[2]>>} :
                i \in maps} : j[1] < j[2]}

\* an os_mem_free that leaves the memory mapped
os_mem_free_leaks(o, addr, size) ==
  IF addr = Null \/ size = 0 THEN o ELSE [o EXCEPT !.reserved = @ - size]

\* os_mem_free: VirtualFree releases the mapping that starts at addr, munmap the
\* range
os_mem_free(o, addr, size) ==
  IF addr = Null \/ size = 0 THEN o
  ELSE [o EXCEPT !.maps = IF o.windows THEN {i \in @ : i[1] # addr}
                          ELSE munmap(@, addr, size),
                 !.reserved = @ - size]

\* os_mem_alloc, p being what the OS returned
os_mem_alloc(o, p, size) ==
  IF p = Null THEN o
  ELSE [o EXCEPT !.maps = @ \cup {<<p, p + size>>}, !.reserved = @ + size]

OsReturn(o, p) == [o EXCEPT !.pc = "done", !.ret = p]

\* an os_mem_alloc_aligned that returns the over-allocation as it is
OverUntrimmed(o, p, aligned_p) == OsReturn(o, p)

\* os_mem_alloc_aligned on mmap systems: the parts before aligned_p and after the
\* size bytes at aligned_p are unmapped
OverTrimmed(o, p, aligned_p) ==
  OsReturn(os_mem_free(os_mem_free(o, p, aligned_p - p),
                       aligned_p + _align_up(o.size, OsPageSize),
                       (o.size + o.align) - (aligned_p - p)
                         - _align_up(o.size, OsPageSize)),
           aligned_p)

\* _os_alloc_aligned, up to the first call of the OS (os_alloc_granularity is the
\* OS page size)
OsAllocAligned(size, align) ==
  /\ os.pc = "idle"
  /\ os' = IF size = 0
              \/ ~(_align_up(align, OsPageSize) >= OsPageSize
                   /\ IsPow2(_align_up(align, OsPageSize)))
           THEN OsReturn([os EXCEPT !.asked = align], Null)
           ELSE [os EXCEPT !.pc = "hint", !.asked = align,
                           !.size = _align_up(_align_up(size, OsPageSize), OsPageSize),
                           !.align = _align_up(align, OsPageSize)]
  /\ UNCHANGED notOs

\* os_mem_alloc_aligned: os_mem_alloc with the alignment as a hint returns p
OsHint(p) ==
  /\ os.pc = "hint"
  /\ os' = IF p = Null THEN OsReturn(os, Null)
           ELSE IF p % os.align = 0 THEN OsReturn(os_mem_alloc(os, p, os.size), p)
           ELSE [os_mem_free(os_mem_alloc(os, p, os.size), p, os.size)
                   EXCEPT !.pc = IF os.windows THEN "win_over" ELSE "over",
                          !.hint = p]
  /\ UNCHANGED notOs

\* os_mem_alloc_aligned on mmap systems: the over-allocation returns p
OsOver(p) ==
  /\ os.pc = "over"
  /\ os' = IF p = Null THEN OsReturn(os, Null)
           ELSE OverTrimmed(os_mem_alloc(os, p, os.size + os.align), p,
                            _align_up(p, os.align))
  /\ UNCHANGED notOs

\* os_mem_alloc_aligned on Windows: the over-allocation of one of the three tries
\* returns p
WinOver(p) ==
  /\ os.pc = "win_over"
  /\ os' = IF p = Null THEN OsReturn(os, Null)
           ELSE IF p % os.align = 0
             THEN OsReturn(os_mem_alloc(os, p, os.size + os.align), p)
           ELSE [os_mem_free(os_mem_alloc(os, p, os.size + os.align), p,
                             os.size + os.align)
                   EXCEPT !.pc = "win_at", !.p = _align_up(p, os.align)]
  /\ UNCHANGED notOs

\* os_mem_alloc_aligned on Windows: win_virtual_alloc(aligned_p, ..) returns q
WinAt(q) ==
  /\ os.pc = "win_at"
  /\ os' = IF q = os.p
           THEN OsReturn([os EXCEPT !.maps = @ \cup {<<q, q + os.size>>}], q)
           ELSE IF os.tries + 1 = 3
             THEN OsReturn([os_mem_free(os, q, os.size) EXCEPT !.tries = @ + 1], Null)
           ELSE [os_mem_free(os, q, os.size) EXCEPT !.tries = @ + 1, !.pc = "win_over"]
  /\ UNCHANGED notOs

\* sizes and alignments asked for, and the addresses the OS may return
OsSizes == {0, 100, OsPageSize, 2 * OsPageSize}
OsAligns == {0, 3, OsPageSize, 5000, 2 * OsPageSize, 3 * OsPageSize, 4 * OsPageSize}
OsAddrs == {Null, 4 * OsPageSize, 5 * OsPageSize, 6 * OsPageSize}

InitOs ==
  /\ InitSegments([overlap |-> FALSE, threads |-> {}, sizes |-> {},
                   pages |-> MaxSmallPages - 1, tracked |-> MaxTracked, stats |-> FALSE, secure |-> 0, page_reset |-> FALSE])
  /\ \E w \in BOOLEAN : os = [NoOs EXCEPT !.windows = w]
  /\ proc = NoProc
  /\ tf = NoTf
  /\ stat_count = NoStat
  /\ link = NoLink
  /\ mul = NoMul

NextOs ==
  \/ \E size \in OsSizes, align \in OsAligns : OsAllocAligned(size, align)
  \/ \E p \in OsAddrs : OsHint(p)
  \/ \E p \in OsAddrs : OsOver(p)
  \/ \E p \in OsAddrs : WinOver(p)
  \/ \E q \in OsAddrs \cup {os.p} : WinAt(q)

\* one call of _os_alloc_aligned
SpecOs == InitOs /\ [][NextOs]_vars

PowerOfTwo(n) == \E k \in 0 .. 30 : n = 2 ^ k

\* C21 as stated: _os_alloc_aligned returns null, or p with p mod align = 0, for
\* every power-of-two align >= the OS page size; every align that is not a power of
\* two yields null
C21_AlignedOrNull ==
  os.pc = "done" =>
    /\ (PowerOfTwo(os.asked) /\ os.asked >= OsPageSize)
         => (os.ret = Null \/ os.ret % os.asked = 0)
    /\ ~PowerOfTwo(os.asked) => os.ret = Null

\* C21: _os_alloc_aligned returns null, or p with p mod align = 0, for every
\* power-of-two align >= the OS page size, also when the first mapping is misaligned
\* and it over-allocates; an align whose next multiple of the OS page size is zero
\* or no power of two yields null
C21_AlignedOrNullRounded ==
  os.pc = "done" =>
    /\ (PowerOfTwo(os.asked) /\ os.asked >= OsPageSize)
         => \/ os.ret = Null
            \/ /\ os.ret % os.asked = 0
               /\ \E i \in os.maps : i[1] <= os.ret /\ os.ret + os.size <= i[2]
    /\ ~PowerOfTwo(_align_up(os.asked, OsPageSize)) => os.ret = Null
    /\ os.ret # Null => os.ret % _align_up(os.asked, OsPageSize) = 0

\* on an mmap system the first mapping was misaligned, and the call returned an
\* address inside the over-allocation
C21_Witness ==
  /\ os.pc = "done" /\ ~os.windows
  /\ os.asked = 4 * OsPageSize
  /\ os.hint # Null /\ os.hint % os.asked # 0
  /\ os.ret # Null /\ os.ret # os.hint /\ os.ret % os.asked = 0

ThreadIdOfOwner(s) ==
  /\ \A i \in PageIdx :
       (seg[s].pages[i].segment_in_use /\ seg[s].pages[i].heap # Null)
         => seg[s].thread_id = seg[s].pages[i].heap
  /\ s \in OnStack => seg[s].thread_id = 0
  /\ \A t \in Threads : s \in QueueMembers(seg, tld[t].cache) => seg[s].thread_id = 0

\* the step sets thread_id of s in segment_alloc (a segment from the OS or from the
\* cache), in segment_free (to the cache or to the OS), in segment_abandon (before
\* the push) or in the reclaim (after the pop)
ThreadIdSetBy(s) ==
  \/ /\ seg[s].thread_id = 0 /\ seg'[s].thread_id \in Threads
     /\ seg[s].mapped => s \in QueueMembers(seg, tld[seg'[s].thread_id].cache)
     /\ seg'[s].used <= 1 /\ seg'[s].abandoned = 0
  \/ /\ seg[s].thread_id \in Threads /\ seg'[s].thread_id = 0
     /\ seg'[s].mapped => s \in QueueMembers(seg', tld'[seg[s].thread_id].cache)
     /\ seg'[s].used = 0
  \/ /\ seg[s].thread_id \in Threads /\ seg'[s].thread_id = 0
     /\ seg'[s].mapped /\ seg'[s].used = seg'[s].abandoned /\ seg'[s].used > 0
     /\ pc'[seg[s].thread_id] = "ab_cas" /\ loc'[seg[s].thread_id].segment = s
  \/ /\ seg[s].thread_id = 0 /\ seg'[s].thread_id \in Threads
     /\ pc[seg'[s].thread_id] = "rc_dec" /\ loc[seg'[s].thread_id].segment = s

ThreadIdSteps ==
  [][\A s \in DOMAIN seg : seg'[s].thread_id # seg[s].thread_id => ThreadIdSetBy(s)]_vars

\* C23: thread_id of a segment is the id of the thread whose heap uses it, and is 0
\* whenever the segment is on the abandoned stack or in a segment cache; thread_id
\* changes only in segment_alloc, segment_free, segment_abandon and the reclaim
C23_ThreadId ==
  /\ [](\A s \in DOMAIN seg : seg[s].mapped => ThreadIdOfOwner(s))
  /\ ThreadIdSteps

(***************************************************************************)
(* Process and thread initialisation (src/src/init.rs)                     *)
(***************************************************************************)
\* is_main_thread, of thread t
is_main_thread(p, t) == p.heap_main.thread_id = 0 \/ p.heap_main.thread_id = t

\* the heap that heap_default of thread t points to (0: heap_main)
HeapOf(p, t) == IF p.heap_default[t] = "heap_main" THEN 0 ELSE t

\* a heap_done that frees the thread data first
heap_done_steps_free_first(heap) ==
  IF heap # "heap_main" THEN <<"os_free", "heap_collect_abandon">>
  ELSE <<"heap_destroy_pages">>

\* heap_done: what it does with the backing heap
heap_done_steps(heap) ==
  IF heap # "heap_main" THEN <<"heap_collect_abandon", "os_free">>
  ELSE <<"heap_destroy_pages">>

\* a process_init that does not test process_is_initialized
process_init_again(p) == TRUE

\* process_init: ensure we are called once
process_init_runs(p) == ~p.process_is_initialized

\* thread_init: the call of process_init
ThreadInit(t) ==
  /\ proc.pc[t] = "idle"
  /\ proc' = [proc EXCEPT !.pc[t] = "process_init"]
  /\ UNCHANGED notProc

\* process_init, statement by statement: the test of process_is_initialized, its
\* assignment, heap_main.thread_id, and heap_main.cookie and heap_main.random
ProcessInit(t) ==
  /\ proc.pc[t] \in {"process_init", "set_initialized", "set_thread_id", "set_cookie"}
  /\ proc' =
       IF proc.pc[t] = "process_init"
       THEN [proc EXCEPT !.pc[t] = IF process_init_runs(proc) THEN "set_initialized"
                                   ELSE "heap_init",
                         !.early = @ \/ (~proc.completed /\ \E u \in 1 .. NThreads :
                                           proc.pc[u] \in {"set_initialized",
                                                           "set_thread_id", "set_cookie"})]
       ELSE IF proc.pc[t] = "set_initialized"
       THEN [proc EXCEPT !.process_is_initialized = TRUE, !.pc[t] = "set_thread_id"]
       ELSE IF proc.pc[t] = "set_thread_id"
       THEN [proc EXCEPT !.heap_main.thread_id = t, !.pc[t] = "set_cookie"]
       ELSE [proc EXCEPT !.heap_main.cookie = <<"cookie", t>>,
                         !.heap_main.random = <<"random", t>>,
                         !.completed = TRUE, !.pc[t] = "heap_init"]
  /\ UNCHANGED notProc

\* thread_init after heap_init: it returns on true and for the main thread, and counts
\* the thread in the stats of the Tld of the default heap otherwise. After a failed
\* os_alloc the default heap is still heap_empty, which has no Tld: the access either
\* ends the process (crash) or goes through
thread_init_stat(p, t, crash) ==
  IF p.ret[t].value \/ is_main_thread(p, t)
  THEN [p EXCEPT !.pc[t] = "idle", !.last[t] = "thread_init"]
  ELSE IF p.heap_default[t] = "heap_empty" /\ crash
  THEN [p EXCEPT !.pc = [u \in 1 .. NThreads |-> "crashed"]]
  ELSE [p EXCEPT !.pc[t] = "idle", !.last[t] = "thread_init", !.threads[t] = @ + 1]

\* thread_init: heap_init, os_alloc returning memory or null, and the rest of
\* thread_init
HeapInit(t, os_ok, crash) ==
  /\ proc.pc[t] = "heap_init"
  /\ (proc.heap_default[t] = "heap_empty" /\ ~is_main_thread(proc, t) /\ (os_ok \/ ~crash))
       => proc.threads[t] < MaxThreadsStat
  /\ proc' = thread_init_stat(
       IF proc.heap_default[t] # "heap_empty"
       THEN [proc EXCEPT !.ret[t] = [call |-> "heap_init", was |-> TRUE, value |-> TRUE]]
       ELSE IF is_main_thread(proc, t)
       THEN [proc EXCEPT !.heap_default[t] = "heap_main",
                         !.ret[t] = [call |-> "heap_init", was |-> FALSE, value |-> FALSE]]
       ELSE IF ~os_ok
       THEN [proc EXCEPT !.ret[t] = [call |-> "heap_init", was |-> FALSE, value |-> FALSE]]
       ELSE [proc EXCEPT !.heap_default[t] = "td", !.td[t] = "mapped",
                         !.ret[t] = [call |-> "heap_init", was |-> FALSE, value |-> FALSE]],
       t, crash)
  /\ UNCHANGED notProc

\* the thread's default heap gets a page
HeapPage(t) ==
  /\ proc.pc[t] = "idle"
  /\ proc.heap_default[t] # "heap_empty"
  /\ proc.pages[HeapOf(proc, t)] < MaxHeapPages
  /\ proc' = [proc EXCEPT !.pages[HeapOf(proc, t)] = @ + 1]
  /\ UNCHANGED notProc

\* thread_done before heap_done: the thread is taken from stats.threads unless it is
\* the main thread or its default heap is not initialized
thread_done_stat(p, t) ==
  IF ~is_main_thread(p, t) /\ p.heap_default[t] # "heap_empty"
  THEN [p EXCEPT !.threads[t] = @ - 1]
  ELSE p

\* thread_done: the statistic, then heap_done up to what it does with the backing heap
ThreadDone(t) ==
  /\ proc.pc[t] = "idle"
  /\ proc' =
       IF proc.heap_default[t] = "heap_empty"
       THEN [thread_done_stat(proc, t) EXCEPT
               !.last[t] = "thread_done",
               !.ret[t] = [call |-> "heap_done", was |-> FALSE, value |-> TRUE]]
       ELSE [thread_done_stat(proc, t) EXCEPT
               !.heap_default[t] = IF is_main_thread(proc, t) THEN "heap_main"
                                   ELSE "heap_empty",
               !.ret[t] = [call |-> "heap_done", was |-> TRUE, value |-> FALSE],
               !.steps[t] = heap_done_steps(proc.heap_default[t]),
               !.pc[t] = "heap_done"]
  /\ UNCHANGED notProc

\* heap_done: heap_collect_abandon, os_free or heap_destroy_pages of the backing
\* heap (the thread data of t, or heap_main when the call is heap_destroy_pages)
HeapDone(t) ==
  /\ proc.pc[t] = "heap_done"
  /\ proc' =
       IF proc.steps[t] = <<>> THEN [proc EXCEPT !.pc[t] = "idle", !.last[t] = "thread_done"]
       ELSE IF Head(proc.steps[t]) = "heap_collect_abandon"
       THEN [proc EXCEPT !.abandoned[t] = proc.pages[t], !.pages[t] = 0,
                         !.steps[t] = Tail(@)]
       ELSE IF Head(proc.steps[t]) = "os_free"
       THEN [proc EXCEPT !.td[t] = "freed", !.steps[t] = Tail(@)]
       ELSE [proc EXCEPT !.pages[0] = 0, !.steps[t] = Tail(@)]
  /\ UNCHANGED notProc

\* process_done
ProcessDone ==
  /\ proc' = IF ~proc.process_is_initialized \/ proc.process_done THEN proc
             ELSE [proc EXCEPT !.process_done = TRUE, !.collections = @ + 1]
  /\ proc' # proc
  /\ UNCHANGED notProc

InitProc ==
  /\ InitSegments([overlap |-> FALSE, threads |-> {}, sizes |-> {},
                   pages |-> MaxSmallPages - 1, tracked |-> MaxTracked, stats |-> FALSE, secure |-> 0, page_reset |-> FALSE])
  /\ os = NoOs
  /\ proc = NoProc
  /\ tf = NoTf
  /\ stat_count = NoStat
  /\ link = NoLink
  /\ mul = NoMul

NextProc ==
  \/ \E t \in 1 .. NThreads :
       \/ ThreadInit(t)
       \/ ProcessInit(t)
       \/ \E os_ok \in BOOLEAN, crash \in BOOLEAN : HeapInit(t, os_ok, crash)
       \/ HeapPage(t)
       \/ ThreadDone(t)
       \/ HeapDone(t)
  \/ ProcessDone

\* threads that call thread_init and thread_done, and the exit of the process
SpecProc == InitProc /\ [][NextProc]_vars

\* C24: when a thread that is not the main thread exits, heap_collect_abandon has
\* taken the pages of its backing heap before the memory of its heap and Tld is
\* released to the OS; heap_main is never released to the OS
C24_CollectBeforeFree ==
  /\ [][\A t \in 1 .. NThreads :
          (proc.td[t] = "mapped" /\ proc'.td[t] = "freed")
            => (proc.pages[t] = 0 /\ proc.steps[t] = <<"os_free">>)]_vars
  /\ [](\A t \in 1 .. NThreads : proc.td[t] # "mapped" => proc.pages[t] = 0)
  /\ [](\A t \in 1 .. NThreads :
          (proc.steps[t] # <<>> /\ Head(proc.steps[t]) = "os_free")
            => proc.heap_default[t] # "heap_main" /\ proc.td[t] = "mapped")

\* a thread that is not the main thread has exited: its two pages were taken by
\* heap_collect_abandon and its thread data is released, while heap_main has a page
C24_Witness ==
  /\ proc.heap_main.thread_id = 1
  /\ proc.td[2] = "freed" /\ proc.abandoned[2] = MaxHeapPages
  /\ proc.heap_default[2] = "heap_empty"
  /\ proc.pages[0] > 0

\* a thread has a heap only once process_init has set process_is_initialized;
\* process_done does nothing before process_init, and collects at most once
InitBeforeHeaps ==
  /\ \A t \in 1 .. NThreads :
       proc.heap_default[t] # "heap_empty" => proc.process_is_initialized
  /\ ~proc.process_is_initialized => (~proc.process_done /\ proc.collections = 0)
  /\ proc.collections <= 1

NO_DELAYED_FREE == 0
USE_DELAYED_FREE == 1
DELAYED_FREEING == 2

\* a push that stores the new head whatever the list holds by now
thread_free_store(value, expected, new) == [ok |-> TRUE, value |-> new]

\* compare and exchange of ThreadFree.value
thread_free_cas(value, expected, new) ==
  IF value = expected THEN [ok |-> TRUE, value |-> new]
  ELSE [ok |-> FALSE, value |-> value]

\* the blocks that are in a free call or went through one
Freed == tf.pushed \cup tf.delayed \cup {tf.block[t] : t \in 1 .. NThreads}

\* page_free_block_cross(page, block) of thread t, up to its reading of thread_free
\* (again after a failed exchange and while the tag is DELAYED_FREEING): with
\* NO_DELAYED_FREE the block is linked to the head that was read, with
\* USE_DELAYED_FREE it goes onto thread_delayed_free of the heap
PageFreeBlockCross(t, b) ==
  /\ \/ tf.pc[t] = "idle" /\ b \notin Freed
     \/ tf.pc[t] = "retry" /\ b = tf.block[t]
  /\ tf' = CASE tf.thread_free % 4 = NO_DELAYED_FREE ->
                  [tf EXCEPT !.pc[t] = "cas", !.block[t] = b,
                             !.seen[t] = tf.thread_free,
                             !.next[b] = tf.thread_free \div 4]
             [] tf.thread_free % 4 = USE_DELAYED_FREE ->
                  [tf EXCEPT !.pc[t] = "idle", !.block[t] = 0,
                             !.delayed = @ \cup {b}]
             [] OTHER -> [tf EXCEPT !.pc[t] = "retry", !.block[t] = b]
  /\ UNCHANGED notTf

\* the exchange of the push: the block becomes the head, the tag stays
ThreadFreeCas(t) ==
  /\ tf.pc[t] = "cas"
  /\ tf' = [tf EXCEPT
       !.thread_free =
          thread_free_cas(tf.thread_free, tf.seen[t],
                          tf.block[t] * 4 + (tf.seen[t] % 4)).value,
       !.pushed =
          IF thread_free_cas(tf.thread_free, tf.seen[t], 0).ok
          THEN @ \cup {tf.block[t]} ELSE @,
       !.pc[t] =
          IF thread_free_cas(tf.thread_free, tf.seen[t], 0).ok
          THEN "inc" ELSE "retry"]
  /\ UNCHANGED notTf

\* thread_freed is incremented after the push
ThreadFreedInc(t) ==
  /\ tf.pc[t] = "inc"
  /\ tf' = [tf EXCEPT !.thread_freed = @ + 1, !.pc[t] = "idle", !.block[t] = 0]
  /\ UNCHANGED notTf

\* the blocks of the list that starts at block b, following Block.next
RECURSIVE ThreadFreeList(_, _, _)
ThreadFreeList(next, b, fuel) ==
  IF b = 0 \/ fuel = 0 THEN <<>>
  ELSE <<b>> \o ThreadFreeList(next, next[b], fuel - 1)

\* page_collect of the owner: the whole list is swapped out, the tag stays
PageCollect ==
  /\ tf.thread_free \div 4 # 0
  /\ tf' = [tf EXCEPT
       !.thread_free = tf.thread_free % 4,
       !.drained = @ \o ThreadFreeList(tf.next, tf.thread_free \div 4, MaxFreed + 1)]
  /\ UNCHANGED notTf

\* the owner's heap sets the tag of the page
UseDelayedFree(tag) ==
  /\ tag # tf.thread_free % 4
  /\ tf' = [tf EXCEPT !.thread_free = (tf.thread_free \div 4) * 4 + tag]
  /\ UNCHANGED notTf

InitTf ==
  /\ InitSegments([overlap |-> FALSE, threads |-> {}, sizes |-> {},
                   pages |-> MaxSmallPages - 1, tracked |-> MaxTracked, stats |-> FALSE, secure |-> 0, page_reset |-> FALSE])
  /\ os = NoOs
  /\ proc = NoProc
  /\ tf = NoTf
  /\ stat_count = NoStat
  /\ link = NoLink
  /\ mul = NoMul

NextTf ==
  \/ \E t \in 1 .. NThreads :
       \/ \E b \in 1 .. MaxFreed : PageFreeBlockCross(t, b)
       \/ ThreadFreeCas(t)
       \/ ThreadFreedInc(t)
  \/ PageCollect
  \/ \E tag \in {NO_DELAYED_FREE, USE_DELAYED_FREE, DELAYED_FREEING} : UseDelayedFree(tag)

\* threads that free blocks of a page of another thread, and the owner of the page
SpecTf == InitTf /\ [][NextTf]_vars

\* the blocks the owner has drained, followed by those on the list
DrainedAndListed ==
  tf.drained \o ThreadFreeList(tf.next, tf.thread_free \div 4, MaxFreed + 1)

\* C26: however the pushes of the other threads and the drains of the owner
\* interleave, every block that was pushed onto thread_free is on the list or
\* was obtained by a drain, once and by one drain only, and nothing else is;
\* thread_freed is at most the number of blocks pushed; a push leaves the two
\* tag bits as they are
C26_CrossThreadFree ==
  /\ [](/\ \A i, j \in 1 .. Len(DrainedAndListed) :
              DrainedAndListed[i] = DrainedAndListed[j] => i = j
        /\ {DrainedAndListed[i] : i \in 1 .. Len(DrainedAndListed)} = tf.pushed
        /\ tf.thread_freed <= Cardinality(tf.pushed))
  /\ [][tf.pushed' # tf.pushed =>
          /\ tf.thread_free' % 4 = tf.thread_free % 4
          /\ tf.thread_free' \div 4 \in tf.pushed' \ tf.pushed]_vars

\* the owner has drained a block, another block is on the list, and the
\* exchange of a thread that read the head before is about to fail
C26_Witness ==
  /\ Len(tf.drained) >= 1
  /\ tf.thread_free \div 4 # 0
  /\ tf.thread_freed >= 1
  /\ \E t \in 1 .. NThreads : tf.pc[t] = "cas" /\ tf.seen[t] # tf.thread_free

(***************************************************************************)
(* Guard pages in secure mode                                              *)
(***************************************************************************)
\* one thread, block sizes of every page kind, option_secure 1 or 2
InitSecure ==
  \E m \in [SegIds -> UNION {MmapResults(s) : s \in SegIds}] : \E secure \in {1, 2} :
    /\ \A s \in SegIds : m[s] \in MmapResults(s)
    /\ InitWith([overlap |-> FALSE, threads |-> {1}, sizes |-> BlockSizes,
                 pages |-> MaxSmallPages, tracked |-> MaxTracked, stats |-> FALSE,
                 secure |-> secure, page_reset |-> FALSE, mmap |-> m])

SpecSecure == InitSecure /\ [][NextPtr]_vars

\* the memory [p, p + psize) of a page shares no byte with the range <<from, to>>
\* of the segment at the address segment
Disjoint(a, segment, range) ==
  a.p + a.psize <= segment + range[1] \/ segment + range[2] <= a.p

\* the ranges that secure mode has protected in the segment s: the OS page between
\* the segment info and the page data, and the last OS page of the segment
\* (secure = 1) or of every page (secure >= 2)
Guarded(s, guards) ==
  /\ <<segment_info_size(s.capacity), segment_info_size(s.capacity) + OsPageSize>>
       \in guards
  /\ option_secure = 1 => <<s.segment_size - OsPageSize, s.segment_size>> \in guards
  /\ option_secure >= 2 =>
       \A i \in 0 .. s.capacity - 1 :
         <<PageSlot(0, s, i).p + PageSlot(0, s, i).psize - OsPageSize,
           PageSlot(0, s, i).p + PageSlot(0, s, i).psize>> \in guards

\* the memory a = [p, p + psize) of a page of the segment s at the address
\* segment lies after the segment info, inside the segment and off the guards
PageUsable(a, segment, s, guards) ==
  /\ a.psize > 0
  /\ Disjoint(a, segment, <<0, segment_info_size(s.capacity)>>)
  /\ Disjoint(a, segment, <<s.segment_size, s.segment_size + OsPageSize>>)
  /\ \A g \in guards : Disjoint(a, segment, g)

\* so does the memory of every page of the segment, for every block size
PagesUsable(segment, s, guards) ==
  \A i \in 0 .. s.capacity - 1 : \A b \in PageBlockSizes :
    PageUsable(segment_page_start(segment, s, i, b), segment, s, guards)

\* C27: in secure mode segment_alloc protects the OS page between the segment
\* info and the page data, and the last OS page of the segment (secure = 1) or of
\* every page (secure >= 2); the memory [start, start + page_size) that
\* segment_page_start reports for a page overlaps no protected range and not the
\* segment info, in segments from the OS and in segments from the cache (and in a
\* SMALL segment of all its 64 pages)
C27_GuardPages ==
  \A s \in DOMAIN seg :
    seg[s].mapped /\ seg[s].thread_id # 0 =>
      /\ Guarded(seg[s], seg[s].guards)
      /\ PagesUsable(SegmentBase(s), seg[s], seg[s].guards)
      /\ seg[s].page_kind = PAGE_SMALL =>
           PagesUsable(SegmentBase(s), FullSegment(seg[s]),
                       segment_alloc_protect(PAGE_SMALL, SMALL_PAGES_PER_SEGMENT,
                                             SEGMENT_SIZE))

\* with a guard page after every page, a SMALL segment is in the cache, and the
\* LARGE page that the thread asks for next comes from it, without the guards
\* that were inside it
C27_Witness ==
  \E u \in DOMAIN seg :
    /\ option_secure = 2
    /\ seg[u].mapped /\ seg[u].thread_id = 0 /\ seg[u].page_kind = PAGE_SMALL
    /\ Cardinality(seg[u].guards) = 1 + MaxSmallPages
    /\ MayStart(1) /\ _segment_page_alloc(View(1), 1, 65536, TRUE, TRUE).ret = u
    /\ _segment_page_alloc(View(1), 1, 65536, TRUE, TRUE).seg[u].page_kind = PAGE_LARGE
    /\ Cardinality(_segment_page_alloc(View(1), 1, 65536, TRUE, TRUE).seg[u].guards) = 2

(***************************************************************************)
(* Statistics (src/src/stats.rs)                                           *)
(***************************************************************************)
\* _stat_update(stat, amount) of thread t, up to current.fetch_add, which returns
\* the value that current had before
StatUpdate(t, amount) ==
  /\ stat_count.pc[t] = "idle"
  /\ stat_count.calls < MaxStatCalls
  /\ stat_count' =
       IF amount = 0
       THEN [stat_count EXCEPT !.calls = @ + 1, !.callers = @ \cup {t}]
       ELSE [stat_count EXCEPT
               !.calls = @ + 1, !.callers = @ \cup {t},
               !.current = @ + amount,
               !.reached = IF stat_count.current + amount > @
                           THEN stat_count.current + amount ELSE @,
               !.amount[t] = amount,
               !.fetched[t] = stat_count.current,
               !.pc[t] = "load"]
  /\ UNCHANGED notStat

\* let old_peak = peak.load(); if current > old_peak
StatPeakLoad(t) ==
  /\ stat_count.pc[t] = "load"
  /\ stat_count' =
       [stat_count EXCEPT
          !.old_peak[t] = stat_count.peak,
          !.pc[t] = IF stat_count.fetched[t] > stat_count.peak THEN "cas" ELSE "count"]
  /\ UNCHANGED notStat

\* peak.compare_and_swap(old_peak, current)
StatPeakCas(t) ==
  /\ stat_count.pc[t] = "cas"
  /\ stat_count' =
       [stat_count EXCEPT
          !.peak = IF @ = stat_count.old_peak[t] THEN stat_count.fetched[t] ELSE @,
          !.pc[t] = "count"]
  /\ UNCHANGED notStat

\* allocated.fetch_add(amount) or freed.fetch_add(-amount), and return
StatCounted(t) ==
  /\ stat_count.pc[t] = "count"
  /\ stat_count' =
       [_stat_update(stat_count, stat_count.amount[t]) EXCEPT !.pc[t] = "idle"]
  /\ UNCHANGED notStat

InitStat ==
  /\ InitSegments([overlap |-> FALSE, threads |-> {}, sizes |-> {},
                   pages |-> MaxSmallPages - 1, tracked |-> MaxTracked, stats |-> FALSE,
                   secure |-> 0, page_reset |-> FALSE])
  /\ InitExt

NextStat ==
  \E t \in 1 .. NThreads :
    \/ \E amount \in -2 .. 2 : StatUpdate(t, amount)
    \/ StatPeakLoad(t)
    \/ StatPeakCas(t)
    \/ StatCounted(t)

\* threads that call _stat_increase and _stat_decrease on one StatCount
SpecStat == InitStat /\ [][NextStat]_vars

\* C28: when no call of _stat_increase or _stat_decrease is under way, peak is
\* not below current, and when one thread alone has made the calls, peak is the
\* largest value that current has reached
C28_Peak ==
  (\A t \in 1 .. NThreads : stat_count.pc[t] = "idle") =>
    /\ stat_count.peak >= stat_count.current
    /\ Cardinality(stat_count.callers) <= 1 => stat_count.peak = stat_count.reached

(***************************************************************************)
(* Free list links (src/src/internal.rs)                                   *)
(***************************************************************************)
\* a ^ b on the n low bits
RECURSIVE Xor(_, _, _)
Xor(a, b, n) ==
  IF n = 0 THEN 0
  ELSE (((a % 2) + (b % 2)) % 2) + 2 * Xor(a \div 2, b \div 2, n - 1)

\* a block_nextx that reads the field as it is
block_nextx_plain(secure, cookie, next) == next

\* block_nextx(cookie, block), next being (*block).next
block_nextx(secure, cookie, next) ==
  IF secure THEN Xor(next, cookie, PtrBits) ELSE next

\* block_set_nextx(cookie, block, next): what it stores in (*block).next
block_set_nextx(secure, cookie, next) ==
  IF secure THEN Xor(next, cookie, PtrBits) ELSE next

\* block_set_next(page, block, x)
BlockSetNext(b, x) ==
  /\ link' = [link EXCEPT !.next[b] = block_set_nextx(link.secure, link.cookie, x),
                          !.set[b] = x, !.got[b] = -1]
  /\ UNCHANGED notLink

\* block_next(page, block), of a block whose link was set
BlockNext(b) ==
  /\ link.set[b] # -1
  /\ link' = [link EXCEPT !.got[b] = block_nextx(link.secure, link.cookie, link.next[b])]
  /\ UNCHANGED notLink

\* a page with any cookie, in a build with and without MI_SECURE
InitLink ==
  /\ InitSegments([overlap |-> FALSE, threads |-> {}, sizes |-> {},
                   pages |-> MaxSmallPages - 1, tracked |-> MaxTracked, stats |-> FALSE,
                   secure |-> 0, page_reset |-> FALSE])
  /\ os = NoOs /\ proc = NoProc /\ tf = NoTf /\ stat_count = NoStat /\ mul = NoMul
  /\ \E secure \in BOOLEAN, cookie \in 0 .. 2 ^ PtrBits - 1 :
       link = [NoLink EXCEPT !.secure = secure, !.cookie = cookie]

NextLink ==
  \E b \in 1 .. 2 :
    \/ \E x \in 0 .. 2 ^ PtrBits - 1 : BlockSetNext(b, x)
    \/ BlockNext(b)

SpecLink == InitLink /\ [][NextLink]_vars

\* C29: for every cookie of the page, block b and pointer x (null too),
\* block_next(page, b) after block_set_next(page, b, x) returns x, with the link
\* stored XORed with the cookie (MI_SECURE) and stored as it is
C29_RoundTrip ==
  \A b \in 1 .. 2 : link.got[b] # -1 => link.got[b] = link.set[b]

\* in a secure build a link was read back that is not stored as it is, and the
\* null link of the other block is not stored as null
C29_Witness ==
  /\ link.secure /\ link.cookie # 0
  /\ link.set[1] > 0 /\ link.got[1] = link.set[1] /\ link.next[1] # link.set[1]
  /\ link.set[2] = 0 /\ link.got[2] = 0 /\ link.next[2] # 0

(***************************************************************************)
(* The frame of segment_page_clear                                         *)
(***************************************************************************)
\* two threads, the SMALL pages of one segment at a time, with and without
\* option_page_reset
InitClear ==
  \E page_reset \in BOOLEAN :
    InitWith([overlap |-> FALSE, threads |-> Threads, sizes |-> {16},
              pages |-> MaxSmallPages - 1, tracked |-> MaxTracked - 2, stats |-> FALSE,
              secure |-> 0, page_reset |-> page_reset])

SpecClear == InitClear /\ [][Next]_vars

\* st1 is st with page i of the segment s cleared and nothing else changed: the
\* page keeps segment_idx and is_reset (which the clear may set), is out of use
\* and zero otherwise; used is one less
PageClearFrame(st, st1, s, i) ==
  /\ st1.seg[s].pages[i] =
       [segment_idx |-> st.seg[s].pages[i].segment_idx, segment_in_use |-> FALSE,
        is_reset |-> st1.seg[s].pages[i].is_reset, used |-> 0, thread_freed |-> 0,
        heap |-> Null]
  /\ st.seg[s].pages[i].is_reset => st1.seg[s].pages[i].is_reset
  /\ st1.seg[s].used = st.seg[s].used - 1
  /\ st1.seg[s].abandoned = st.seg[s].abandoned
  /\ \A j \in PageIdx \ {i} : st1.seg[s].pages[j] = st.seg[s].pages[j]
  /\ [st1.seg[s] EXCEPT !.used = 0, !.pages = <<>>]
       = [st.seg[s] EXCEPT !.used = 0, !.pages = <<>>]
  /\ \A u \in DOMAIN seg \ {s} : st1.seg[u] = st.seg[u]
  /\ st1.tld = st.tld

\* C30: segment_page_clear of a page that is in use and all free resets every
\* field of the page control block but segment_idx and is_reset, sets
\* segment_in_use to false and takes 1 from segment.used; the other pages, the
\* abandoned count and the rest of the segment stay as they are; in every state
\* pages[i].segment_idx = i for every slot i < capacity of every mapped segment
C30_PageClear ==
  \A s \in DOMAIN seg :
    seg[s].mapped =>
      \A i \in PageIdx :
        i < seg[s].capacity =>
          /\ seg[s].pages[i].segment_idx = i
          /\ (halt = "run" /\ seg[s].pages[i].segment_in_use
                /\ page_all_free(seg[s].pages[i])) =>
               \A t \in Threads :
                 PageClearFrame(View(t), segment_page_clear(View(t), s, i), s, i)

\* the second page of a SMALL segment is all free and its first page, which was
\* reset and taken again, is in use: the clear leaves slot 1 with segment_idx 1
C30_Witness ==
  \E s \in DOMAIN seg :
    /\ seg[s].mapped /\ seg[s].page_kind = PAGE_SMALL /\ seg[s].used = 2
    /\ halt = "run"
    /\ seg[s].pages[0].segment_in_use /\ seg[s].pages[0].is_reset
    /\ seg[s].pages[1].segment_in_use /\ page_all_free(seg[s].pages[1])
    /\ segment_page_clear(View(1), s, 1).seg[s].pages[1].segment_idx = 1
    /\ segment_page_clear(View(1), s, 1).seg[s].pages[1].is_reset
    /\ segment_page_clear(View(1), s, 1).seg[s].used = 1

(***************************************************************************)
(* C31: the policy of segment_cache_insert                                 *)
(***************************************************************************)
\* segment_cache_full answers true for tld: a count or a size cap is reached
CacheAtCap(d) ==
  \/ d.cache_count >= SEGMENT_CACHE_MAX
  \/ d.cache_size * SEGMENT_CACHE_FRACTION >= d.peak_size

\* this step frees segment s of thread 1
FreesSegment(s) == seg[s].mapped /\ seg[s].thread_id = 1 /\ seg'[s].thread_id # 1

CacheSeq(sg, d) == QueueSeq(sg, d.cache.first, Cardinality(DOMAIN sg))

\* C31 as stated: when a segment is inserted while the cache is at its cap, the
\* candidate is dropped only if the cache is still at its cap after the evictions, and
\* an insertion into a cache of SEGMENT_CACHE_MAX segments evicts the largest (the
\* last) of them
C31_EvictThenInsert ==
  [][\A s \in DOMAIN seg :
       (FreesSegment(s) /\ CacheAtCap(tld[1])) =>
          /\ (~CacheAtCap(tld'[1])) => seg'[s].mapped
          /\ tld[1].cache_count = SEGMENT_CACHE_MAX => ~seg'[tld[1].cache.last].mapped]_vars

\* C31 amended: a candidate inserted while the cache is at a cap (SEGMENT_CACHE_MAX
\* segments, or cache_size * 8 >= peak_size) always goes to the OS; before that,
\* segments are evicted from the tail, and only as long as cache_size * 8 exceeds
\* peak_size; a candidate inserted below both caps is cached and nothing is evicted
C31_InsertPolicy ==
  [][\A s \in DOMAIN seg : FreesSegment(s) =>
       LET q == CacheSeq(seg, tld[1])
           q1 == CacheSeq(seg', tld'[1])
       IN IF CacheAtCap(tld[1])
          THEN /\ ~seg'[s].mapped
               /\ Len(q1) <= Len(q) /\ q1 = SubSeq(q, 1, Len(q1))
               /\ \A j \in (Len(q1) + 1) .. Len(q) : ~seg'[q[j]].mapped
               /\ tld'[1].cache_count = Len(q1)
               /\ tld'[1].cache_size * SEGMENT_CACHE_FRACTION <= tld[1].peak_size
               /\ Len(q1) < Len(q) =>
                     (tld'[1].cache_size + seg[q[Len(q1) + 1]].segment_size)
                         * SEGMENT_CACHE_FRACTION > tld[1].peak_size
          ELSE /\ seg'[s].mapped
               /\ Len(q1) = Len(q) + 1
               /\ {q1[j] : j \in 1 .. Len(q1)} = {q[j] : j \in 1 .. Len(q)} \cup {s}]_vars

\* a cache of SEGMENT_CACHE_MAX segments below the size cap and a segment to free: the
\* insertion evicts nothing and the candidate goes to the OS
C31_Witness ==
  /\ tld[1].cache_count = SEGMENT_CACHE_MAX
  /\ tld[1].cache_size * SEGMENT_CACHE_FRACTION < tld[1].peak_size
  /\ \E s \in DOMAIN seg :
       /\ Owns(1, s, 0) /\ page_all_free(seg[s].pages[0])
       /\ LET r == _segment_page_free(View(1), s, 0, FALSE)
          IN /\ r.tld.cache_count = SEGMENT_CACHE_MAX
             /\ ~r.seg[s].mapped
             /\ r.seg[tld[1].cache.last].mapped

(***************************************************************************)
(* C32: the small_free queues                                              *)
(***************************************************************************)
SmallFreeSeq(sg, d) == QueueSeq(sg, d.small_free.first, Cardinality(DOMAIN sg))

\* the members of the small_free queue of thread t are SMALL segments of t that have
\* an unused slot, each once
SmallFreeMembers(t) ==
  LET q == SmallFreeSeq(seg, tld[t])
  IN \A j \in 1 .. Len(q) :
       /\ seg[q[j]].mapped
       /\ seg[q[j]].page_kind = PAGE_SMALL
       /\ seg[q[j]].thread_id = t
       /\ seg[q[j]].used < seg[q[j]].capacity
       /\ segment_find_free(seg[q[j]]) >= 0
       /\ \A k \in 1 .. Len(q) : q[k] = q[j] => k = j

\* this step puts slot i of the SMALL segment s to use for thread t
SmallSlotTaken(t, s, i) ==
  /\ seg'[s].mapped /\ seg'[s].page_kind = PAGE_SMALL /\ seg'[s].thread_id = t
  /\ seg'[s].pages[i].segment_in_use
  /\ ~(seg[s].mapped /\ seg[s].pages[i].segment_in_use)

\* the slot comes from small_free.first, and from a new segment only when the queue
\* is empty; the segment is in the queue afterwards exactly when a slot is left
SmallSlotFromFirst(t, s, i) ==
  LET first == tld[t].small_free.first
      q1 == SmallFreeSeq(seg', tld'[t])
  IN /\ IF first # Null
        THEN /\ s = first
             /\ i = segment_find_free(seg[s])
             /\ seg'[s].used = seg[s].used + 1
             /\ tld'[t].current_size = tld[t].current_size
             /\ \A x \in DOMAIN seg : seg'[x].mapped = seg[x].mapped
        ELSE /\ seg[s].thread_id # t
             /\ seg'[s].used = 1
     /\ (\E j \in 1 .. Len(q1) : q1[j] = s) <=> seg'[s].used < seg'[s].capacity

\* C32: every segment of a small_free queue is a SMALL segment of the queue's thread
\* with used < capacity and an unused slot, and is in the queue once; a small page is
\* taken from small_free.first, from a new segment only when the queue is empty, and
\* the segment leaves the queue in the step that takes its last slot
C32_SmallFree ==
  /\ [](halt = "run" => \A t \in Threads : SmallFreeMembers(t))
  /\ [][\A t \in Threads, s \in DOMAIN seg, i \in PageIdx :
          SmallSlotTaken(t, s, i) => SmallSlotFromFirst(t, s, i)]_vars

(***************************************************************************)
(* C33: the order of the cache                                             *)
(***************************************************************************)
\* C33: the cache of every thread is in the order of segment_size, smallest first, so
\* that segment_cache_evict, which takes cache.last, takes a segment that is as large
\* as any in the cache
C33_CacheOrdered ==
  \A t \in Threads :
    LET q == CacheSeq(seg, tld[t])
    IN /\ \A j \in 1 .. (Len(q) - 1) : seg[q[j]].segment_size <= seg[q[j + 1]].segment_size
       /\ Len(q) > 0 =>
            /\ segment_cache_evict(View(t)).ret = q[Len(q)]
            /\ q[Len(q)] = tld[t].cache.last
            /\ \A j \in 1 .. Len(q) : seg[q[j]].segment_size <= seg[q[Len(q)]].segment_size

\* a cache of three segments of two sizes or more, one of which was inserted before
\* a segment that was in the cache already
C33_Witness ==
  LET q == CacheSeq(seg, tld[1])
  IN /\ Len(q) = 3
     /\ seg[q[1]].segment_size < seg[q[3]].segment_size
     /\ \E j \in 1 .. 2 : q[j] > q[j + 1]

(***************************************************************************)
(* C34: abandoned_count and the abandoned stack                            *)
(***************************************************************************)
\* no call is between its entry and its return: no push and no pop is in progress
Quiescent == \A t \in Threads : pc[t] = "idle"

\* C34: abandoned_count is never below zero (it never wraps), and whenever no push
\* or pop is in progress it is the number of segments on the abandoned stack
C34_CountConsistent ==
  /\ abandoned_count >= 0
  /\ Quiescent => abandoned_count = Cardinality(OnStack)

\* the second half of C34 alone: the counter of a quiescent state is the number of
\* segments on the stack
C34_QuiescentCount == Quiescent => abandoned_count = Cardinality(OnStack)

(***************************************************************************)
(* C35: segment_size and the mapping                                       *)
(***************************************************************************)
RECURSIVE MappedBytes(_)
MappedBytes(S) ==
  IF S = {} THEN 0
  ELSE LET s == CHOOSE x \in S : TRUE
       IN seg[s].os_size + MappedBytes(S \ {s})

\* C35: segment_size of every segment a thread owns or has in its cache is the size
\* of the OS mapping behind it, and current_size of the thread is the sum of the
\* mappings it holds: what is released is what was acquired
C35_SizeIsMapping ==
  /\ \A s \in DOMAIN seg : seg[s].mapped => seg[s].segment_size = seg[s].os_size
  /\ tld[1].current_size = MappedBytes({s \in DOMAIN seg : seg[s].mapped})

(***************************************************************************)
(* C36: the counters of the cache                                          *)
(***************************************************************************)
RECURSIVE SeqBytes(_, _, _)
SeqBytes(sg, q, k) == IF k = 0 THEN 0 ELSE sg[q[k]].segment_size + SeqBytes(sg, q, k - 1)

\* C36: cache_count of every thread is the number of segments linked in its cache and
\* cache_size the sum of their segment_size; a cached segment has used = 0 and no
\* page slot in use
C36_CacheCounters ==
  halt = "run" => \A t \in Threads :
    LET q == CacheSeq(seg, tld[t])
    IN /\ tld[t].cache_count = Len(q)
       /\ tld[t].cache_size = SeqBytes(seg, q, Len(q))
       /\ \A j \in 1 .. Len(q) :
            /\ seg[q[j]].mapped
            /\ seg[q[j]].used = 0
            /\ \A i \in PageIdx : ~seg[q[j]].pages[i].segment_in_use

(***************************************************************************)
(* C37: the queues and the abandoned stack                                 *)
(***************************************************************************)
\* the queues and the stack that hold segment s
PlacesOf(s) ==
  {<<t, qn>> : t \in {u \in Threads : s \in QueueMembers(seg, tld[u].small_free)},
               qn \in {"small_free"}}
  \cup {<<t, qn>> : t \in {u \in Threads : s \in QueueMembers(seg, tld[u].cache)},
                    qn \in {"cache"}}
  \cup (IF s \in OnStack THEN {<<0, "abandoned">>} ELSE {})

\* queue is a well-formed doubly linked list
WellFormed(queue) ==
  LET q == QueueSeq(seg, queue.first, Cardinality(DOMAIN seg) + 1)
  IN /\ (queue.first = Null) <=> (queue.last = Null)
     /\ \A j, k \in 1 .. Len(q) : q[j] = q[k] => j = k
     /\ Len(q) > 0 =>
          /\ seg[q[1]].prev = Null
          /\ q[Len(q)] = queue.last
          /\ seg[queue.last].next = Null
          /\ \A j \in 1 .. (Len(q) - 1) : seg[q[j + 1]].prev = q[j]

\* C37: a segment is in at most one of the small_free queues, the caches and the
\* abandoned stack; the queues are well-formed doubly linked lists, a segment in no
\* queue has next = prev = null, and for a segment of thread t the quick test of
\* segment_is_in_free_queue is true exactly when it is in small_free of t
C37_OnePlace ==
  halt = "run" =>
    /\ \A s \in DOMAIN seg : Cardinality(PlacesOf(s)) <= 1
    /\ \A t \in Threads : WellFormed(tld[t].small_free) /\ WellFormed(tld[t].cache)
    /\ \A s \in DOMAIN seg :
         (seg[s].mapped /\ \A t \in Threads, qn \in {"small_free", "cache"} :
                             <<t, qn>> \notin PlacesOf(s))
           => seg[s].next = Null /\ seg[s].prev = Null
    /\ \A t \in Threads, s \in DOMAIN seg :
         (seg[s].mapped /\ seg[s].thread_id = t)
           => (segment_is_in_free_queue(View(t), s)
                 <=> s \in QueueMembers(seg, tld[t].small_free))

(***************************************************************************)
(* C38: thread_init and thread_done, called again                          *)
(***************************************************************************)
\* C38: heap_init returns true exactly when the default heap was initialized already,
\* and heap_done exactly when there was nothing to tear down; when thread_init has
\* returned the default heap of the thread is an initialized heap; a thread that is
\* not the main thread is counted once in `threads` while its heap is initialized
\* and not at all otherwise, however often thread_init and thread_done are called,
\* and after thread_done its default heap is the empty heap
C38_Idempotent ==
  \A t \in 1 .. NThreads :
    /\ proc.ret[t].call = "heap_init" => (proc.ret[t].value <=> proc.ret[t].was)
    /\ proc.ret[t].call = "heap_done" => (proc.ret[t].value <=> ~proc.ret[t].was)
    /\ (proc.pc[t] = "idle" /\ proc.last[t] = "thread_init")
         => proc.heap_default[t] # "heap_empty"
    /\ proc.threads[t] = IF proc.heap_default[t] = "td" THEN 1 ELSE 0
    /\ (proc.pc[t] = "idle" /\ proc.last[t] = "thread_done"
          /\ ~is_main_thread(proc, t))
         => proc.heap_default[t] = "heap_empty"

(***************************************************************************)
(* mul_overflow                                                            *)
(***************************************************************************)
\* usize::max_value(), of a word of 8 * WordBytes bits
USIZE_MAX == 2 ^ (8 * WordBytes) - 1

MI_MUL_NO_OVERFLOW == 2 ^ (4 * WordBytes)

\* mul_overflow(size, count, total): size * count is a usize multiplication, which
\* panics on overflow in a build with overflow checks and wraps in one without;
\* then the test of the operands against MI_MUL_NO_OVERFLOW and the division
mul_overflow(m, count) ==
  IF m.checks /\ m.size * count > USIZE_MAX
  THEN [m EXCEPT !.count = count, !.pc = "panic"]
  ELSE [m EXCEPT !.count = count, !.pc = "done",
                 !.total = (m.size * count) % (USIZE_MAX + 1),
                 !.ret = /\ (m.size >= MI_MUL_NO_OVERFLOW \/ count >= MI_MUL_NO_OVERFLOW)
                         /\ m.size > 0
                         /\ (USIZE_MAX \div m.size) < count]

MulOverflow(count) ==
  /\ mul.pc = "call"
  /\ mul' = mul_overflow(mul, count)
  /\ UNCHANGED notMul

\* a call of mul_overflow with any size, in a build with and without overflow checks
InitMul ==
  /\ InitSegments([overlap |-> FALSE, threads |-> {}, sizes |-> {},
                   pages |-> MaxSmallPages - 1, tracked |-> MaxTracked, stats |-> FALSE,
                   secure |-> 0, page_reset |-> FALSE])
  /\ os = NoOs /\ proc = NoProc /\ tf = NoTf /\ stat_count = NoStat /\ link = NoLink
  /\ \E checks \in BOOLEAN, size \in 0 .. USIZE_MAX :
       mul = [NoMul EXCEPT !.checks = checks, !.size = size, !.pc = "call"]

NextMul == \E count \in 0 .. USIZE_MAX : MulOverflow(count)

SpecMul == InitMul /\ [][NextMul]_vars

\* C39: for all size and count of a machine word mul_overflow returns, and returns
\* true exactly when size * count is larger than the largest value of a word;
\* MI_MUL_NO_OVERFLOW is 2^(bits of a word / 2); when it returns false, *total is
\* size * count
C39_MulOverflow ==
  /\ MI_MUL_NO_OVERFLOW = 2 ^ ((8 * WordBytes) \div 2)
  /\ mul.pc # "panic"
  /\ mul.pc = "done" =>
       /\ mul.ret <=> mul.size * mul.count > USIZE_MAX
       /\ ~mul.ret => mul.total = mul.size * mul.count

====
